---- MODULE Spec2Model ----
(***************************************************************************)
(* Afterwatch: the reconciliation and eviction engine.                     *)
(*                                                                         *)
(* A string is a sequence of characters.  A media file path is a string    *)
(* whose last character stands for its suffix: "m" for a media suffix      *)
(* (.mkv) and "s" for the placeholder suffix (.strm).                      *)
(***************************************************************************)
EXTENDS Integers, Sequences, FiniteSets, TLC

\* ---------------------------------------------------------------- bounds
\* longest folder path drawn for the classifier's inputs
MaxLen == 2
\* largest delay_days setting drawn
MaxDelay == 1
\* events of one behaviour: triggers, manual actions, upstream changes, days
\* passing and failing calls
MaxEvents == 4

\* ---------------------------------------------------------------- strings
\* Python's None for an Optional[int] (subfolder ids are positive)
None == -1

\* str.startswith
startswith(s, prefix) ==
    /\ Len(prefix) <= Len(s)
    /\ \A i \in 1..Len(prefix) : s[i] = prefix[i]

\* str.lower().endswith(".strm")
is_strm(file_path) == Len(file_path) > 0 /\ file_path[Len(file_path)] = "s"

\* Path(file_path).with_suffix(".strm")
with_suffix_strm(file_path) == SubSeq(file_path, 1, Len(file_path) - 1) \o <<"s">>

\* all strings over alphabet of length at most n
RECURSIVE StringsUpTo(_, _)
StringsUpTo(alphabet, n) ==
    IF n = 0 THEN {<<>>}
    ELSE LET shorter == StringsUpTo(alphabet, n - 1)
         IN  shorter \cup {Append(s, c) : s \in shorter, c \in alphabet}

\* ---------------------------------------------------------------- sorted()
\* A dict[int, str] is the sequence of its items <<subfolder_id, path>> in
\* insertion order.  sorted(..., key=len(path), reverse=True) is stable: the
\* item at position i goes before the one at position j iff its path is
\* longer, or as long and i < j.
sort_rank(items, i) ==
    Cardinality({j \in 1..Len(items) :
        \/ Len(items[j][2]) > Len(items[i][2])
        \/ (Len(items[j][2]) = Len(items[i][2]) /\ j < i)}) + 1

sorted_by_len_desc(items) ==
    [k \in 1..Len(items) |-> items[CHOOSE i \in 1..Len(items) : sort_rank(items, i) = k]]

\* the mutant: sorted ascending (reverse=True forgotten)
sorted_by_len_asc(items) ==
    [k \in 1..Len(items) |->
        items[CHOOSE i \in 1..Len(items) :
            Cardinality({j \in 1..Len(items) :
                \/ Len(items[j][2]) < Len(items[i][2])
                \/ (Len(items[j][2]) = Len(items[i][2]) /\ j < i)}) + 1 = k]]

sorted_mappings(items) == sorted_by_len_desc(items)

\* processor.get_subfolder_id_for_path
get_subfolder_id_for_path(file_path, folder_mappings) ==
    LET sm == sorted_mappings(folder_mappings)
        hits == {k \in 1..Len(sm) : startswith(file_path, sm[k][2])}
    IN  IF hits = {} THEN None
        ELSE sm[CHOOSE k \in hits : \A h \in hits : k <= h][1]

\* processor.user_can_access_file; user_access is the policy record, or
\* NoPolicy for user_access_map.get(user_id, {}) of an unknown user
NoPolicy == [all_access |-> FALSE, enabled_folders |-> {}, excluded_subfolders |-> {}]

\* the mutant: a file outside every mapped folder is not accessible
user_can_access_file_closed(file_path, user_access, library_guid, folder_mappings) ==
    IF user_access.all_access THEN TRUE
    ELSE IF library_guid \notin user_access.enabled_folders THEN FALSE
    ELSE LET subfolder_id == get_subfolder_id_for_path(file_path, folder_mappings)
         IN  IF subfolder_id = None THEN FALSE
             ELSE IF subfolder_id \in user_access.excluded_subfolders THEN FALSE
             ELSE TRUE

user_can_access_file(file_path, user_access, library_guid, folder_mappings) ==
    IF user_access.all_access THEN TRUE
    ELSE IF library_guid \notin user_access.enabled_folders THEN FALSE
    ELSE LET subfolder_id == get_subfolder_id_for_path(file_path, folder_mappings)
         IN  IF subfolder_id = None THEN TRUE
             ELSE IF subfolder_id \in user_access.excluded_subfolders THEN FALSE
             ELSE TRUE

\* ---------------------------------------------------------------- configuration
\* emby_users rows; EmbyUser.is_excluded selects the excluded ones
Users == {"ua", "ub", "ux"}
excluded_user_ids == {"ux"}

\* the media files: P1 under /a/b, and P2 under /c, which only libraries that
\* no pass processes hold
P1 == <<"a", "b", "1", "m">>
P2 == <<"c", "2", "m">>
Paths == {P1, P2}

\* table emby_libraries: the ids of the rows with is_enabled set
VARIABLE library_enabled

\* emby_libraries rows, in query order; is_enabled is what config.toggle_library
\* has made it. L5 is a library whose folder /a is a prefix of P1's path and
\* which holds no item for that file
EmbyLibrary ==
    << [id |-> "L1", guid |-> "g1", is_enabled |-> "L1" \in library_enabled],
       [id |-> "L2", guid |-> "g2", is_enabled |-> "L2" \in library_enabled],
       [id |-> "L3", guid |-> "g3", is_enabled |-> "L3" \in library_enabled],
       [id |-> "L4", guid |-> "g4", is_enabled |-> "L4" \in library_enabled],
       [id |-> "L5", guid |-> "g5", is_enabled |-> "L5" \in library_enabled] >>

\* processor.get_library_required_users: library_user_mappings rows with required
\* (L3 has none; L4, which is disabled, has one, and so has L5)
get_library_required_users(library_id) ==
    IF library_id = "L1" THEN <<"ua", "ub">>
    ELSE IF library_id = "L3" THEN <<>>
    ELSE <<"ua">>

\* processor.get_folder_mappings: emby_library_folders rows of the library
\* (L1 has the nested folders /a and /a/b, L2 shares the folder /a/b, L3 and
\* L4 hold /c, L5 holds /a)
get_folder_mappings(library_id) ==
    IF library_id = "L1" THEN << <<11, <<"a">> >>, <<12, <<"a", "b">> >> >>
    ELSE IF library_id = "L2" THEN << <<21, <<"a", "b">> >> >>
    ELSE IF library_id = "L3" THEN << <<31, <<"c">> >> >>
    ELSE IF library_id = "L4" THEN << <<41, <<"c">> >> >>
    ELSE << <<51, <<"a">> >> >>

\* the episodes the media server knows: e1 in L1, and e2, the same file seen
\* through L2 under another item id; e3 in L3 and e4 in L4 are the file P2.
\* e5 is a second episode of L1, the file P2, played only where a library
\* with two candidates is wanted
Items == {"e1", "e2", "e3", "e4"}
Episode(e) ==
    [Id |-> e,
     ParentId |-> IF e \in {"e1", "e5"} THEN "L1" ELSE IF e = "e2" THEN "L2"
                  ELSE IF e = "e3" THEN "L3" ELSE "L4",
     Path |-> IF e \in {"e1", "e2"} THEN P1 ELSE P2,
     ParentIndexNumber |-> 1,
     IndexNumber |-> IF e \in {"e1", "e2"} THEN 1 ELSE 2]
ItemOrder == <<"e1", "e5", "e2", "e3", "e4">>

\* the policies a user of the media server may be given:
\*   EnableAllFolders, or both libraries enabled with the subfolders at /a/b excluded
AllFolders == [all_access |-> TRUE,  enabled_folders |-> {}, excluded_subfolders |-> {}]
Restricted == [all_access |-> FALSE, enabled_folders |-> {"g1", "g2"},
               excluded_subfolders |-> {12, 21}]
PolicyChoices == {AllFolders, Restricted}

\* the inventory: one series at /a holding season 1 with episodes 1 and 2
SonarrSeries == << [id |-> 1, path |-> <<"a">>] >>
SonarrEpisodes == { [id |-> 1, seasonNumber |-> 1, episodeNumber |-> 1],
                    [id |-> 2, seasonNumber |-> 1, episodeNumber |-> 2] }

\* ---------------------------------------------------------------- state
VARIABLES
    now,               \* the clock, in days
    test_mode,         \* settings.test_mode
    delay_days,        \* settings.delay_days
    played,            \* media server: the items each user has played
    policy,            \* media server: each user's access policy
    files,             \* the file system: the paths that exist
    sonarr,            \* inventory: known episode files, monitored episodes and season
    calls,             \* inventory: the mutation requests received, with the requesting run
    watched_episodes,  \* table watched_episodes (committed rows, in insertion order)
    process_logs,      \* table process_logs (committed rows, in insertion order)
    process_runs,      \* table process_runs (committed rows)
    pass,              \* the reconciliation pass of each trigger: position, locals, session
    progress,          \* app.progress.progress
    events,            \* events so far (see MaxEvents)
    classify,          \* the classifier's input and result
    connections        \* table connections: the services whose row is verified

vars == <<now, test_mode, delay_days, played, policy, files, sonarr, calls,
          watched_episodes, process_logs, process_runs, pass, progress,
          events, classify, connections, library_enabled>>

Triggers == {"scheduled", "manual"}

Range(seq) == {seq[i] : i \in DOMAIN seq}

\* ---------------------------------------------------------------- persistence
\* An AsyncSession holds the unit of work of one pass until its commit: the
\* watched_episodes rows it added (ins), the file paths whose rows it deleted
\* (dels) and the process_logs rows it added (logs).  Autoflush makes them
\* visible to the session's own queries; other sessions see committed rows only.
EmptySession == [ins |-> <<>>, dels |-> {}, logs |-> <<>>]

view_watched(session) ==
    SelectSeq(watched_episodes, LAMBDA r : r.file_path \notin session.dels) \o session.ins

view_logs(session) == process_logs \o session.logs

\* WatchedEpisode.file_path is declared unique=True: the INSERT of a second row for
\* a path raises IntegrityError
unique_file_path(rows) ==
    \A i, j \in DOMAIN rows : rows[i].file_path = rows[j].file_path => i = j

watched_constraint(rows) == unique_file_path(rows)

\* the mutant: a user the map does not hold is given every folder
access_of_open(user_access_map, user_id) ==
    IF user_id \in DOMAIN user_access_map THEN user_access_map[user_id] ELSE AllFolders

\* user_access_map.get(user_id, {})
access_of(user_access_map, user_id) ==
    IF user_id \in DOMAIN user_access_map THEN user_access_map[user_id] ELSE NoPolicy

\* ---------------------------------------------------------------- media server
\* EmbyClient.get_watched_episodes: the played episodes of a library, in listing order
get_watched_episodes(user_id, library_id) ==
    SelectSeq([i \in DOMAIN ItemOrder |-> Episode(ItemOrder[i])],
              LAMBDA ep : ep.ParentId = library_id /\ ep.Id \in played[user_id])

\* EmbyClient.check_episode_watched, folded with all(watched_status.values()):
\* a user whose request is not answered 200 counts as not watched
\* the mutant: one watched answer is enough
any_reports_watched(episode_id, user_ids, http_ok) ==
    \E i \in DOMAIN user_ids : http_ok /\ episode_id \in played[user_ids[i]]

all_report_watched(episode_id, user_ids, http_ok) ==
    \A i \in DOMAIN user_ids : http_ok /\ episode_id \in played[user_ids[i]]

\* ---------------------------------------------------------------- inventory
\* SonarrClient.get_series_by_path: the first series whose path is a prefix
\* SonarrClient.get_series_by_path on the list GET /series answers: the first
\* series of the list whose path is a prefix of the path
first_series_by_path(series_list, path) ==
    LET hits == {k \in DOMAIN series_list : startswith(path, series_list[k].path)}
    IN  IF hits = {} THEN None
        ELSE series_list[CHOOSE k \in hits : \A h \in hits : k <= h].id

get_series_by_path(path) == first_series_by_path(SonarrSeries, path)

\* SonarrClient.get_episode_file_by_path: TRUE iff an episode file record is found
get_episode_file_by_path(known, path) ==
    get_series_by_path(path) # None /\ path \in known

\* the episode record with that season and episode number, as a set
find_episode(season_num, episode_num) ==
    {ep \in SonarrEpisodes : ep.seasonNumber = season_num /\ ep.episodeNumber = episode_num}

\* SonarrClient.check_season_complete
\* the mutant: the season counts as complete whatever its episodes
season_always_complete(monitored, season_number) == TRUE

check_season_complete(monitored, season_number) ==
    \A ep \in SonarrEpisodes : ep.seasonNumber = season_number => ep.id \notin monitored

\* ---------------------------------------------------------------- stale-record sweep
\* the mutant: every pending row of every library is taken for stale
sweep_removes_all(watched, library, user_access_map) == TRUE

\* processor.cleanup_stale_watched_records, the decision for one row and one library
sweep_removes(watched, library, user_access_map) ==
    LET required_users == get_library_required_users(library.id)
        folder_mappings == get_folder_mappings(library.id)
        folder_paths == {folder_mappings[k][2] : k \in DOMAIN folder_mappings}
        user_watched_paths(u) ==
            {ep.Path : ep \in Range(get_watched_episodes(u, library.id))}
        belongs == \E fp \in folder_paths : startswith(watched.file_path, fp)
        accessible_users ==
            {u \in Range(required_users) :
                user_can_access_file(watched.file_path, access_of(user_access_map, u),
                                     library.guid, folder_mappings)}
    IN  /\ required_users # <<>>
        /\ folder_paths # {}
        /\ belongs
        /\ \/ accessible_users = {}
           \/ \E u \in accessible_users : watched.file_path \notin user_watched_paths(u)

\* processor.cleanup_stale_watched_records: library by library
RECURSIVE cleanup_stale_watched_records(_, _, _)
cleanup_stale_watched_records(rows, libraries, user_access_map) ==
    IF libraries = <<>> THEN rows
    ELSE cleanup_stale_watched_records(
            SelectSeq(rows, LAMBDA w : ~sweep_removes(w, Head(libraries), user_access_map)),
            Tail(libraries), user_access_map)

\* ---------------------------------------------------------------- delay tracker
\* the mutant: the boundary day excluded (first_seen_at < cutoff)
delay_elapsed_strict(first_seen_at) == first_seen_at < now - delay_days

\* the mutant: the delay never elapses
delay_never_elapsed(first_seen_at) == FALSE

\* first_seen_at <= datetime.now() - timedelta(days=delay_days)
delay_elapsed(first_seen_at) == first_seen_at <= now - delay_days

\* the mutant: the record found is stamped with the time of the observation
restamp_record(session, record) ==
    [session EXCEPT
        !.dels = @ \cup {record.file_path},
        !.ins = Append(SelectSeq(@, LAMBDA r : r.file_path # record.file_path),
                       [record EXCEPT !.first_seen_at = now])]

\* lines 228-237: the record found is read, never written
keep_record(session, record) == session

\* processor.check_or_create_watched_record
\*   raise: scalar_one_or_none found several rows;  created: a row was added
check_or_create_watched_record(session, file_path, season_num, episode_num) ==
    LET found == SelectSeq(view_watched(session), LAMBDA r : r.file_path = file_path)
        fresh == [file_path |-> file_path, season_number |-> season_num,
                  episode_number |-> episode_num, first_seen_at |-> now]
    IN  IF Len(found) > 1
        THEN [raise |-> TRUE, ready |-> FALSE, created |-> FALSE, session |-> session]
        ELSE IF Len(found) = 0
        THEN [raise |-> FALSE, ready |-> FALSE, created |-> TRUE,
              session |-> [session EXCEPT !.ins = Append(@, fresh)]]
        ELSE [raise |-> FALSE, created |-> FALSE,
              session |-> keep_record(session, found[1]),
              ready |-> IF delay_days = 0 THEN TRUE ELSE delay_elapsed(found[1].first_seen_at)]

\* ---------------------------------------------------------------- eviction transaction
\* the calls of the transaction that may raise (an HTTP error, an OSError)
FailPoints == {"none", "lookup", "set_episode_monitored", "check_season_complete",
               "set_season_monitored", "remove", "touch", "refresh_series",
               "get_new_file", "rename_files"}

\* the size of a media file, in units
FileSize(file_path) == Len(file_path)

\* process_episode, lines 324-327: os.path.getsize if the file exists, else 0
getsize(file_path) == IF file_path \in files THEN FileSize(file_path) ELSE 0

\* a new ProcessLog row with the column defaults of models/process_log.py
NewLog(file_path, test) ==
    [original_path |-> file_path, original_size_bytes |-> getsize(file_path),
     test_mode |-> test, success |-> TRUE,
     error_message |-> "", file_deleted |-> FALSE, strm_created |-> FALSE,
     sonarr_renamed |-> FALSE, sonarr_unmonitored |-> FALSE,
     season_unmonitored |-> FALSE]

\* the mutant: the except branch starts from a blank entry
fail_entry_blank(log, error) ==
    [NewLog(log.original_path, FALSE) EXCEPT !.success = FALSE, !.error_message = error]

\* the except branch of process_episode: the flags already written are kept
fail_entry(log, error) == [log EXCEPT !.success = FALSE, !.error_message = error]

\* the transaction in progress: live until a call raises
tx_begin(file_path) ==
    [live |-> TRUE, error |-> "", log |-> NewLog(file_path, FALSE),
     files |-> files, sonarr |-> sonarr, calls |-> calls]

tx_raise(t, error) == [t EXCEPT !.live = FALSE, !.error = error]

\* lines 348-369: the file, the series and the episode are looked up
tx_lookup(t, file_path, season_num, episode_num, fail) ==
    IF fail = "lookup" THEN tx_raise(t, "HTTPError")
    ELSE IF ~get_episode_file_by_path(t.sonarr.files, file_path)
    THEN tx_raise(t, "Could not find file in Sonarr")
    ELSE IF get_series_by_path(file_path) = None
    THEN tx_raise(t, "Could not find series in Sonarr")
    ELSE IF find_episode(season_num, episode_num) = {}
    THEN tx_raise(t, "Could not find episode in Sonarr")
    ELSE t

\* lines 371-373: set_episode_monitored(sonarr_episode_id, False)
tx_unmonitor_episode(t, season_num, episode_num, fail, by) ==
    IF ~t.live THEN t
    ELSE IF fail = "set_episode_monitored" THEN tx_raise(t, "HTTPError")
    ELSE [t EXCEPT
            !.sonarr.monitored =
                @ \ {(CHOOSE ep \in find_episode(season_num, episode_num) : TRUE).id},
            !.calls = @ \cup {[op |-> "set_episode_monitored", by |-> by]},
            !.log.sonarr_unmonitored = TRUE]

\* lines 375-378: check_season_complete, set_season_monitored(.., False)
tx_unmonitor_season(t, season_num, fail, by) ==
    IF ~t.live THEN t
    ELSE IF fail = "check_season_complete" THEN tx_raise(t, "HTTPError")
    ELSE IF ~check_season_complete(t.sonarr.monitored, season_num) THEN t
    ELSE IF fail = "set_season_monitored" THEN tx_raise(t, "HTTPError")
    ELSE [t EXCEPT
            !.sonarr.season_monitored = FALSE,
            !.calls = @ \cup {[op |-> "set_season_monitored", by |-> by]},
            !.log.season_unmonitored = TRUE]

\* the mutant: the file is removed although an earlier step has raised
tx_remove_regardless(t, file_path, fail) ==
    IF file_path \notin t.files THEN t
    ELSE [t EXCEPT !.files = @ \ {file_path}, !.log.file_deleted = t.live]

\* lines 380-383: os.remove if the file exists
tx_remove(t, file_path, fail) ==
    IF ~t.live \/ file_path \notin t.files THEN t
    ELSE IF fail = "remove" THEN tx_raise(t, "OSError")
    ELSE [t EXCEPT !.files = @ \ {file_path}, !.log.file_deleted = TRUE]

\* lines 385-388: strm_path.touch()
tx_touch(t, file_path, fail) ==
    IF ~t.live THEN t
    ELSE IF fail = "touch" THEN tx_raise(t, "OSError")
    ELSE [t EXCEPT !.files = @ \cup {with_suffix_strm(file_path)},
                   !.log.strm_created = TRUE]

\* lines 390-393: refresh_series; the inventory rescans the series folder, and
\* seen tells whether it has registered the placeholder two seconds later
tx_refresh(t, file_path, fail, seen, by) ==
    IF ~t.live THEN t
    ELSE IF fail = "refresh_series" THEN tx_raise(t, "HTTPError")
    ELSE [t EXCEPT
            !.sonarr.files = (@ \cap t.files)
                             \cup (IF seen THEN {with_suffix_strm(file_path)} ELSE {}),
            !.calls = @ \cup {[op |-> "refresh_series", by |-> by]}]

\* the mutant: a placeholder the inventory has not registered ends the transaction
tx_rename_or_raise(t, file_path, fail, by) ==
    IF ~t.live THEN t
    ELSE IF fail = "get_new_file" THEN tx_raise(t, "HTTPError")
    ELSE IF ~get_episode_file_by_path(t.sonarr.files, with_suffix_strm(file_path))
    THEN tx_raise(t, "Could not find file in Sonarr")
    ELSE IF fail = "rename_files" THEN tx_raise(t, "HTTPError")
    ELSE [t EXCEPT !.calls = @ \cup {[op |-> "rename_files", by |-> by]},
                   !.log.sonarr_renamed = TRUE]

\* lines 395-399: get_episode_file_by_path(strm_path), rename_files
tx_rename(t, file_path, fail, by) ==
    IF ~t.live THEN t
    ELSE IF fail = "get_new_file" THEN tx_raise(t, "HTTPError")
    ELSE IF ~get_episode_file_by_path(t.sonarr.files, with_suffix_strm(file_path)) THEN t
    ELSE IF fail = "rename_files" THEN tx_raise(t, "HTTPError")
    ELSE [t EXCEPT !.calls = @ \cup {[op |-> "rename_files", by |-> by]},
                   !.log.sonarr_renamed = TRUE]

\* the mutant: the entry is marked successful whether or not a call has raised
tx_end_success(t) ==
    [success |-> t.live,
     log |-> [t.log EXCEPT !.success = TRUE],
     files |-> t.files, sonarr |-> t.sonarr, calls |-> t.calls]

\* lines 401 and 407-410: the entry of a completed and of an interrupted transaction
tx_end(t) ==
    [success |-> t.live,
     log |-> IF t.live THEN [t.log EXCEPT !.success = TRUE] ELSE fail_entry(t.log, t.error),
     files |-> t.files, sonarr |-> t.sonarr, calls |-> t.calls]

\* processor.process_episode, lines 347-410: the steps in order, stopping at the
\* first that raises.  fail names the call that raises, by is the requesting run.
eviction_transaction(file_path, season_num, episode_num, fail, seen, by) ==
    LET looked == {tx_lookup(t, file_path, season_num, episode_num, fail) :
                      t \in {tx_begin(file_path)}}
        episode == {tx_unmonitor_episode(t, season_num, episode_num, fail, by) : t \in looked}
        season == {tx_unmonitor_season(t, season_num, fail, by) : t \in episode}
        removed == {tx_remove(t, file_path, fail) : t \in season}
        touched == {tx_touch(t, file_path, fail) : t \in removed}
        refreshed == {tx_refresh(t, file_path, fail, seen, by) : t \in touched}
        renamed == {tx_rename(t, file_path, fail, by) : t \in refreshed}
    IN  CHOOSE entry \in {tx_end(t) : t \in renamed} : TRUE

\* ---------------------------------------------------------------- process_episode
\* the mutant: a candidate no required user can access goes on to the watched check
rejects_nothing(accessible_users) == FALSE

\* the mutant: the test-mode branch is never taken
simulates_never(p) == FALSE

\* the mutant: the setting is read again for every candidate
simulates_setting(p) == test_mode

\* lines 342-345: if test_mode: the entry is added as it is and returned
simulates(p) == p.test_mode

\* lines 303-304: if not accessible_users: return None
rejects_unreachable(accessible_users) == accessible_users = <<>>

\* the mutant: any non-test entry of the path counts, failed ones included
records_attempt(log, file_path) == log.original_path = file_path /\ ~log.test_mode

\* lines 277-283: the entries the idempotent skip selects
records_eviction(log, file_path) ==
    log.original_path = file_path /\ log.success /\ ~log.test_mode

\* processor.process_episode for the pass of trigger self.  outcome names the
\* return statement reached ("raise": an exception escapes); log holds the
\* returned ProcessLog, if any.
process_episode(self, episode, http_ok, fail, seen) ==
    LET p == pass[self]
        file_path == episode.Path
        strm_version == with_suffix_strm(file_path)
        existing == SelectSeq(view_logs(p.session),
                        LAMBDA l : records_eviction(l, file_path))
        vetoed == \E u \in p.excluded_user_ids :
                    user_can_access_file(file_path, access_of(p.user_access, u),
                                         p.library_guid, p.folder_mappings)
        accessible_users ==
            SelectSeq(p.required_users,
                LAMBDA u : user_can_access_file(file_path, access_of(p.user_access, u),
                                                p.library_guid, p.folder_mappings))
        rec == check_or_create_watched_record(p.session, file_path,
                    episode.ParentIndexNumber, episode.IndexNumber)
        tx == eviction_transaction(file_path, episode.ParentIndexNumber,
                    episode.IndexNumber, fail, seen, p.run_id)
        return(o) == [outcome |-> o, log |-> <<>>, session |-> p.session,
                      files |-> files, sonarr |-> sonarr, calls |-> calls]
    IN  IF is_strm(file_path) THEN return("is_strm")
        ELSE IF file_path \notin files /\ strm_version \in files THEN return("converted")
        ELSE IF Len(existing) > 1 THEN return("raise")
        ELSE IF Len(existing) = 1 THEN return("already")
        ELSE IF vetoed THEN return("vetoed")
        ELSE IF rejects_unreachable(accessible_users) THEN return("no_access")
        ELSE IF ~all_report_watched(episode.Id, accessible_users, http_ok)
        THEN return("not_watched")
        ELSE IF rec.raise THEN return("raise")
        ELSE IF ~rec.ready
        THEN [return(IF rec.created THEN "created" ELSE "delayed") EXCEPT !.session = rec.session]
        ELSE IF simulates(p)
        THEN [return("test") EXCEPT
                !.log = <<NewLog(file_path, TRUE)>>,
                !.session = [rec.session EXCEPT !.logs = Append(@, NewLog(file_path, TRUE))]]
        ELSE [outcome |-> IF tx.success THEN "evicted" ELSE "failed",
              log |-> <<tx.log>>,
              session |->
                IF tx.success
                THEN [ins |-> SelectSeq(rec.session.ins, LAMBDA r : r.file_path # file_path),
                      dels |-> rec.session.dels \cup {file_path},
                      logs |-> Append(rec.session.logs, tx.log)]
                ELSE [rec.session EXCEPT !.logs = Append(@, tx.log)],
              files |-> tx.files, sonarr |-> tx.sonarr, calls |-> tx.calls]

\* ---------------------------------------------------------------- the pass
\* a trigger with no pass in progress.  The last four fields are history: the
\* last return of process_episode, the paths whose pending row this pass added,
\* whether a pass has run before this one, and the pending rows it started from
IdlePass ==
    [pc |-> "idle", test_mode |-> FALSE, user_access |-> <<>>, excluded_user_ids |-> {},
     run_id |-> 0, libraries |-> <<>>, library_guid |-> "", required_users |-> <<>>,
     folder_mappings |-> <<>>, todo |-> <<>>, total_processed |-> 0, total_failed |-> 0,
     total_bytes |-> 0, session |-> EmptySession, outcome |-> "", error |-> "", created |-> {},
     follows |-> FALSE, pending_at_start |-> {}]

\* process_watched_episodes, lines 523-531: the union of the required users'
\* listings by item id, first occurrence first
RECURSIVE all_watched(_, _, _)
all_watched(required_users, library_id, acc) ==
    IF required_users = <<>> THEN acc
    ELSE LET listing == get_watched_episodes(Head(required_users), library_id)
             ids == [i \in DOMAIN listing |-> listing[i].Id]
         IN  all_watched(Tail(required_users), library_id,
                         acc \o SelectSeq(ids, LAMBDA e : e \notin Range(acc)))

\* process_watched_episodes, lines 509-533: the next library that has required
\* users, with its candidates; the loop is over when none is left
RECURSIVE begin_library(_, _, _)
begin_library(p, libraries, fetch_ok) ==
    IF libraries = <<>>
    THEN [p EXCEPT !.pc = "finalize", !.libraries = <<>>, !.library_guid = "",
                   !.required_users = <<>>, !.folder_mappings = <<>>, !.todo = <<>>,
                   !.outcome = ""]
    ELSE LET library == Head(libraries)
             required_users == get_library_required_users(library.id)
         IN  IF required_users = <<>> THEN begin_library(p, Tail(libraries), fetch_ok)
             ELSE IF ~fetch_ok
             THEN [p EXCEPT !.pc = "finalize", !.libraries = Tail(libraries),
                            !.library_guid = library.guid,
                            !.required_users = required_users,
                            !.folder_mappings = get_folder_mappings(library.id),
                            !.todo = <<>>, !.outcome = "",
                            !.error = "HTTPStatusError"]
             ELSE [p EXCEPT !.pc = "episodes", !.libraries = Tail(libraries),
                            !.library_guid = library.guid,
                            !.required_users = required_users,
                            !.folder_mappings = get_folder_mappings(library.id),
                            !.todo = all_watched(required_users, library.id, <<>>),
                            !.outcome = ""]

\* the mutant: the libraries are selected without the is_enabled filter
every_library(rows) == rows

\* select(EmbyLibrary).where(EmbyLibrary.is_enabled == True)
enabled_libraries(rows) == SelectSeq(rows, LAMBDA l : l.is_enabled)

next_id(rows) ==
    LET ids == {rows[i].id : i \in DOMAIN rows}
    IN  IF ids = {} THEN 1 ELSE (CHOOSE m \in ids : \A i \in ids : i <= m) + 1

\* the mutant: the sweep is skipped
no_sweep(rows, libraries, user_access_map) == rows

sweep(rows, libraries, user_access_map) ==
    cleanup_stale_watched_records(rows, libraries, user_access_map)

\* process_watched_episodes, lines 416-533: from the trigger to the first library
\* the services a pass needs
Services == {"emby", "sonarr"}

\* processor.get_clients: a client for each service whose connection row exists
\* and is verified
get_clients == [emby |-> "emby" \in connections, sonarr |-> "sonarr" \in connections]

\* the mutant: the clients' availability is not looked at
clients_assumed(clients) == TRUE

\* lines 421-423: if not emby or not sonarr: return
clients_available(clients) == clients.emby /\ clients.sonarr

\* process_watched_episodes where it returns at line 423: the trigger is a call
\* like any other, and nothing is read or written before the return
RefusePass(self) ==
    /\ pass[self].pc = "idle"
    /\ events < MaxEvents
    /\ ~clients_available(get_clients)
    /\ events' = events + 1
    /\ pass' = [pass EXCEPT ![self] = [IdlePass EXCEPT !.outcome = "refused"]]
    /\ UNCHANGED <<library_enabled, now, test_mode, delay_days, played, policy, files, sonarr, calls,
                   watched_episodes, process_logs, process_runs, progress,
                   classify, connections>>

\* config.save_emby_connection and config.save_sonarr_connection: the row of
\* the service is written once its connection test has passed, verified
save_connection(service) ==
    /\ connections' = connections \cup {service}
    /\ UNCHANGED <<library_enabled, now, test_mode, delay_days, played, policy, files, sonarr, calls,
                   watched_episodes, process_logs, process_runs, pass, progress,
                   events, classify>>

\* emby.get_watched_episodes ends with raise_for_status(): a response other than
\* 2xx raises, and takes one event of the budget
fetch_faults(fetch_ok) == IF fetch_ok THEN 0 ELSE 1

StartPass(self) ==
    /\ pass[self].pc = "idle"
    /\ clients_available(get_clients)
    /\ \E fetch_ok \in BOOLEAN :
         LET libraries == enabled_libraries(EmbyLibrary)
             kept_runs == SelectSeq(process_runs, LAMBDA r : ~r.test_mode)
             run == [id |-> next_id(kept_runs), trigger |-> self, test_mode |-> test_mode,
                     status |-> "running", episodes_processed |-> 0, episodes_failed |-> 0,
                     bytes_reclaimed |-> 0, error_message |-> ""]
             p == [IdlePass EXCEPT !.test_mode = test_mode, !.user_access = policy,
                                   !.excluded_user_ids = excluded_user_ids,
                                   !.run_id = run.id,
                                   !.follows = process_runs # <<>>,
                                   !.pending_at_start = Range(watched_episodes)]
             started == begin_library(p, libraries, fetch_ok)
         IN  /\ events + 1 + fetch_faults(fetch_ok) <= MaxEvents
             /\ events' = events + 1 + fetch_faults(fetch_ok)
             /\ ~fetch_ok => started.error = "HTTPStatusError"
             /\ process_logs' = SelectSeq(process_logs, LAMBDA l : ~l.test_mode)
             /\ watched_episodes' = sweep(watched_episodes, libraries, policy)
             /\ process_runs' = Append(kept_runs, run)
             /\ progress' = [is_running |-> TRUE, run_id |-> run.id,
                             processed_count |-> 0, failed_count |-> 0,
                             bytes_reclaimed |-> 0]
             /\ pass' = [pass EXCEPT ![self] = started]
    /\ UNCHANGED <<library_enabled, connections, now, test_mode, delay_days, played, policy, files, sonarr,
                   calls, classify>>

\* the calls of the media server made before the run row is created
StartCalls == {"access", "sweep", "count"}

\* process_watched_episodes where a call of the media server raises before
\* line 488.  A failure of get_all_user_access_details is caught and the
\* function returns (lines 427-432).  A failure of get_watched_episodes in the
\* sweep (line 473) or in the candidate count (lines 479-486) is not caught: it
\* leaves the function after the purge of the test rows was committed, the
\* sweep's deletions being committed only when the sweep itself has returned.
FailStart(self) ==
    /\ pass[self].pc = "idle"
    /\ clients_available(get_clients)
    /\ events < MaxEvents
    /\ events' = events + 1
    /\ \E at \in StartCalls :
         /\ process_logs' = IF at = "access" THEN process_logs
                            ELSE SelectSeq(process_logs, LAMBDA l : ~l.test_mode)
         /\ process_runs' = IF at = "access" THEN process_runs
                            ELSE SelectSeq(process_runs, LAMBDA r : ~r.test_mode)
         /\ watched_episodes' =
                IF at = "count"
                THEN sweep(watched_episodes, enabled_libraries(EmbyLibrary), policy)
                ELSE watched_episodes
         /\ pass' = [pass EXCEPT ![self] =
                        [IdlePass EXCEPT !.outcome = IF at = "access" THEN "returned"
                                                     ELSE "escaped"]]
    /\ UNCHANGED <<library_enabled, connections, now, test_mode, delay_days, played, policy,
                   files, sonarr, calls, progress, classify>>

\* the calls of one candidate that fail
faults(http_ok, fail) == (IF http_ok THEN 0 ELSE 1) + (IF fail = "none" THEN 0 ELSE 1)

\* the mutant: the size of every returned entry is added
reclaimed_any(log) == IF log = <<>> THEN 0 ELSE log[1].original_size_bytes

\* lines 545-553: log.original_size_bytes if log.success else 0
reclaimed(log) ==
    IF log # <<>> /\ log[1].success THEN log[1].original_size_bytes ELSE 0

\* process_watched_episodes, lines 535-556: one candidate of the current library
\* the mutant: nothing is counted
tally_nothing(count, hit) == count

\* lines 551-555: total_processed += 1 for a log that succeeded, total_failed += 1
\* for one that did not
tally(count, hit) == IF hit THEN count + 1 ELSE count

ProcessEpisode(self) ==
    /\ pass[self].pc = "episodes"
    /\ pass[self].todo # <<>>
    /\ \E http_ok \in BOOLEAN, fail \in FailPoints, seen \in BOOLEAN :
         LET r == process_episode(self, Episode(Head(pass[self].todo)), http_ok, fail, seen)
             ok == r.log # <<>> /\ r.log[1].success
             ko == r.log # <<>> /\ ~r.log[1].success
         IN  /\ events + faults(http_ok, fail) <= MaxEvents
             /\ events' = events + faults(http_ok, fail)
             /\ fail # "none" => r.outcome = "failed"
             /\ files' = r.files
             /\ sonarr' = r.sonarr
             /\ calls' = r.calls
             /\ progress' =
                    [progress EXCEPT !.processed_count = IF ok THEN @ + 1 ELSE @,
                                     !.failed_count = IF ko THEN @ + 1 ELSE @,
                                     !.bytes_reclaimed = @ + reclaimed(r.log)]
             /\ pass' = [pass EXCEPT ![self] =
                    IF r.outcome = "raise"
                    THEN [@ EXCEPT !.pc = "finalize", !.todo = <<>>, !.outcome = "raise",
                                   !.error = "MultipleResultsFound"]
                    ELSE [@ EXCEPT !.todo = Tail(@), !.session = r.session,
                                   !.outcome = r.outcome,
                                   !.created = IF r.outcome = "created"
                                               THEN @ \cup {Episode(Head(pass[self].todo)).Path}
                                               ELSE @,
                                   !.total_processed = tally(@, ok),
                                   !.total_failed = tally(@, ko),
                                   !.total_bytes = @ + reclaimed(r.log)]]
    /\ UNCHANGED <<library_enabled, connections, now, test_mode, delay_days, played, policy, watched_episodes,
                   process_logs, process_runs, classify>>

\* process_episode where check_episode_watched does not return: client.get
\* raises a transport error (httpx.ConnectError, a timeout), which no try of
\* process_episode covers.  The exception leaves the library loop with the
\* session as the candidates before this one have left it.
AbortEpisode(self) ==
    /\ pass[self].pc = "episodes"
    /\ pass[self].todo # <<>>
    /\ events < MaxEvents
    /\ process_episode(self, Episode(Head(pass[self].todo)), TRUE, "none", TRUE).outcome
            \notin {"is_strm", "converted", "raise", "already", "vetoed", "no_access"}
    /\ events' = events + 1
    /\ pass' = [pass EXCEPT ![self] =
            [@ EXCEPT !.pc = "finalize", !.todo = <<>>, !.outcome = "raise",
                      !.error = "ConnectError"]]
    /\ UNCHANGED <<library_enabled, connections, now, test_mode, delay_days, played, policy,
                   files, sonarr, calls, watched_episodes, process_logs, process_runs,
                   progress, classify>>

\* process_watched_episodes, line 558, and the head of the next iteration: the
\* session's unit of work is flushed and committed.  An INSERT that breaks the
\* unique constraint raises IntegrityError: the transaction is rolled back and
\* the exception leaves the library loop.
CommitLibrary(self) ==
    /\ pass[self].pc = "episodes"
    /\ pass[self].todo = <<>>
    /\ \E fetch_ok \in BOOLEAN :
         LET p == pass[self]
             rows == view_watched(p.session)
             next == begin_library([p EXCEPT !.session = EmptySession], p.libraries, fetch_ok)
         IN  /\ events + fetch_faults(fetch_ok) <= MaxEvents
             /\ events' = events + fetch_faults(fetch_ok)
             /\ IF watched_constraint(rows)
                THEN /\ ~fetch_ok => next.error = "HTTPStatusError"
                     /\ watched_episodes' = rows
                     /\ process_logs' = process_logs \o p.session.logs
                     /\ pass' = [pass EXCEPT ![self] = next]
                ELSE /\ fetch_ok
                     /\ UNCHANGED <<watched_episodes, process_logs>>
                     /\ pass' = [pass EXCEPT ![self] =
                             [p EXCEPT !.pc = "finalize", !.session = EmptySession,
                                       !.outcome = "", !.error = "IntegrityError"]]
    /\ UNCHANGED <<library_enabled, connections, now, test_mode, delay_days, played, policy, files, sonarr,
                   calls, process_runs, progress, classify>>

\* line 580 commits on the session of the whole pass, and no line calls
\* session.rollback(): after a flush that failed the session's transaction is
\* inactive, and the commit raises PendingRollbackError
session_usable(p) == p.error # "IntegrityError"

\* process_watched_episodes, lines 560-580: the run row is finalized (completed,
\* or failed in the except branch), progress.finish(), and the last commit
FinishPass(self) ==
    /\ pass[self].pc = "finalize"
    /\ LET p == pass[self]
           rows == view_watched(p.session)
           final(r) ==
               IF r.id # p.run_id THEN r
               ELSE IF p.error = ""
               THEN [r EXCEPT !.status = "completed",
                              !.episodes_processed = p.total_processed,
                              !.episodes_failed = p.total_failed,
                              !.bytes_reclaimed = p.total_bytes]
               ELSE [r EXCEPT !.status = "failed", !.error_message = p.error]
       IN  IF session_usable(p) /\ watched_constraint(rows)
           THEN /\ watched_episodes' = rows
                /\ process_logs' = process_logs \o p.session.logs
                /\ process_runs' = [i \in DOMAIN process_runs |-> final(process_runs[i])]
           ELSE UNCHANGED <<watched_episodes, process_logs, process_runs>>
    /\ progress' = [progress EXCEPT !.is_running = FALSE]
    /\ pass' = [pass EXCEPT ![self] = IdlePass]
    /\ UNCHANGED <<library_enabled, connections, now, test_mode, delay_days, played, policy, files, sonarr, calls,
                   events, classify>>

\* ---------------------------------------------------------------- manual actions
\* api.process_pending_episodes for one selected row (ids = [its id]): the
\* eviction steps without the eligibility filter and without the delay; a log
\* row is written only when every step succeeded
ProcessPending(i) ==
    /\ i \in DOMAIN watched_episodes
    /\ clients_available(get_clients)
    /\ \E fail \in FailPoints, seen \in BOOLEAN :
         LET ep == watched_episodes[i]
             tx == eviction_transaction(ep.file_path, ep.season_number,
                                        ep.episode_number, fail, seen, 0)
             log_entry == [NewLog(ep.file_path, FALSE) EXCEPT
                              !.file_deleted = TRUE, !.strm_created = TRUE,
                              !.sonarr_unmonitored = TRUE, !.sonarr_renamed = TRUE]
         IN  /\ events + 1 + faults(TRUE, fail) <= MaxEvents
             /\ events' = events + 1 + faults(TRUE, fail)
             /\ IF ep.file_path \notin files
                THEN UNCHANGED <<files, sonarr, calls, process_logs, watched_episodes>>
                ELSE /\ files' = tx.files
                     /\ sonarr' = tx.sonarr
                     /\ calls' = tx.calls
                     /\ IF tx.success
                        THEN /\ process_logs' = Append(process_logs, log_entry)
                             /\ watched_episodes' =
                                   [k \in 1..(Len(watched_episodes) - 1) |->
                                       IF k < i THEN watched_episodes[k]
                                       ELSE watched_episodes[k + 1]]
                        ELSE UNCHANGED <<process_logs, watched_episodes>>
    /\ UNCHANGED <<library_enabled, connections, now, test_mode, delay_days, played, policy, process_runs, pass,
                   progress, classify>>

\* api.toggle_test_mode
ToggleTestMode ==
    /\ events < MaxEvents
    /\ test_mode' = ~test_mode
    /\ events' = events + 1
    /\ UNCHANGED <<library_enabled, connections, now, delay_days, played, policy, files, sonarr, calls,
                   watched_episodes, process_logs, process_runs, pass, progress,
                   classify>>

\* ---------------------------------------------------------------- environment
\* a user plays an episode, or marks it unplayed, on the media server
SetPlayed(u, e) ==
    /\ events < MaxEvents
    /\ played' = [played EXCEPT ![u] = IF e \in @ THEN @ \ {e} ELSE @ \cup {e}]
    /\ events' = events + 1
    /\ UNCHANGED <<library_enabled, connections, now, test_mode, delay_days, policy, files, sonarr, calls,
                   watched_episodes, process_logs, process_runs, pass, progress,
                   classify>>

\* an administrator of the media server changes a user's policy
SetPolicy(u, c) ==
    /\ events < MaxEvents
    /\ c # policy[u]
    /\ policy' = [policy EXCEPT ![u] = c]
    /\ events' = events + 1
    /\ UNCHANGED <<library_enabled, connections, now, test_mode, delay_days, played, files, sonarr, calls,
                   watched_episodes, process_logs, process_runs, pass, progress,
                   classify>>

\* the inventory drops an episode file it knew (the file is removed from the
\* series in the inventory's own interface): get_episode_file_by_path answers
\* None for it from then on
SonarrForget(file_path) ==
    /\ events < MaxEvents
    /\ file_path \in sonarr.files
    /\ sonarr' = [sonarr EXCEPT !.files = @ \ {file_path}]
    /\ events' = events + 1
    /\ UNCHANGED <<library_enabled, connections, now, test_mode, delay_days, played, policy, files, calls,
                   watched_episodes, process_logs, process_runs, pass, progress,
                   classify>>

\* api.delete_orphans, lines 398-404: the rows that are not successful, not of
\* test mode, and whose error text holds "Could not find file in Sonarr"
orphaned(log) ==
    /\ ~log.success
    /\ ~log.test_mode
    /\ log.error_message = "Could not find file in Sonarr"

\* api.delete_orphans: the file of each selected row is removed when it exists
\* (a row whose removal raises is left alone), the row is rewritten as a success
\* with the text "Orphaned file deleted", and the session is committed
delete_orphans ==
    /\ events < MaxEvents
    /\ \E fs_ok \in BOOLEAN :
         LET logs == {process_logs[i] : i \in {j \in DOMAIN process_logs :
                                                  orphaned(process_logs[j])}}
             existing == {log.original_path : log \in logs} \cap files
             rewritten(log) ==
                 IF orphaned(log) /\ (log.original_path \in files => fs_ok)
                 THEN [log EXCEPT !.error_message = "Orphaned file deleted",
                                  !.success = TRUE]
                 ELSE log
         IN  /\ ~fs_ok => existing # {}
             /\ files' = IF fs_ok THEN files \ existing ELSE files
             /\ process_logs' = [i \in DOMAIN process_logs |-> rewritten(process_logs[i])]
    /\ events' = events + 1
    /\ UNCHANGED <<library_enabled, connections, now, test_mode, delay_days, played, policy, sonarr, calls,
                   watched_episodes, process_runs, pass, progress, classify>>

\* logs.process_single_episode for the row at position i: line 101 reads
\* log_entry.dry_run, which ProcessLog does not have, so the handler ends there
\* with AttributeError, before any call and any write
process_single_episode(i) ==
    /\ events < MaxEvents
    /\ i \in DOMAIN process_logs
    /\ events' = events + 1
    /\ UNCHANGED <<library_enabled, connections, now, test_mode, delay_days, played, policy, files, sonarr,
                   calls, watched_episodes, process_logs, process_runs, pass, progress,
                   classify>>

\* config.toggle_library: is_enabled of the row is inverted and committed
toggle_library(library_id) ==
    /\ library_enabled' = IF library_id \in library_enabled
                          THEN library_enabled \ {library_id}
                          ELSE library_enabled \cup {library_id}
    /\ UNCHANGED <<connections, now, test_mode, delay_days, played, policy, files, sonarr,
                   calls, watched_episodes, process_logs, process_runs, pass, progress,
                   events, classify>>

\* a day passes
Tick ==
    /\ events < MaxEvents
    /\ now' = now + 1
    /\ events' = events + 1
    /\ UNCHANGED <<library_enabled, connections, test_mode, delay_days, played, policy, files, sonarr, calls,
                   watched_episodes, process_logs, process_runs, pass, progress,
                   classify>>

\* ---------------------------------------------------------------- classifier queries
\* the inputs drawn for the classifier: folder paths and file paths over a
\* two-letter alphabet, and the dicts with at most two items
QueryFolders == StringsUpTo({"a", "b"}, MaxLen)
QueryFiles == StringsUpTo({"a", "b"}, MaxLen + 1)
QueryIds == {1, 2}
QueryMappings ==
    {<<>>}
    \cup {<< <<i, f>> >> : i \in QueryIds, f \in QueryFolders}
    \cup {m \in {<< <<i, f>>, <<j, g>> >> : i \in QueryIds, j \in QueryIds,
                                            f \in QueryFolders, g \in QueryFolders} :
            m[1][1] # m[2][1]}
NoQuery == [file_path |-> <<>>, folder_mappings |-> <<>>, result |-> None, done |-> FALSE]

\* a call of get_subfolder_id_for_path
Classify ==
    /\ ~classify.done
    /\ classify' = [classify EXCEPT
            !.result = get_subfolder_id_for_path(classify.file_path, classify.folder_mappings),
            !.done = TRUE]
    /\ UNCHANGED <<library_enabled, connections, now, test_mode, delay_days, played, policy, files, sonarr, calls,
                   watched_episodes, process_logs, process_runs, pass, progress, events>>

\* the series lists of a series query: up to two series with different ids
QuerySeries ==
    {[k \in DOMAIN m |-> [id |-> m[k][1], path |-> m[k][2]]] : m \in QueryMappings}

\* a call of SonarrClient.get_series_by_path
ResolveSeries ==
    /\ ~classify.done
    /\ classify' = [classify EXCEPT
            !.result = first_series_by_path(classify.series_list, classify.file_path),
            !.done = TRUE]
    /\ UNCHANGED <<library_enabled, connections, now, test_mode, delay_days, played, policy,
                   files, sonarr, calls, watched_episodes, process_logs, process_runs, pass,
                   progress, events>>

\* the policies and the library of an access query
QueryPolicies ==
    [all_access : BOOLEAN, enabled_folders : {{}, {"g1"}, {"g2"}},
     excluded_subfolders : SUBSET QueryIds]
QueryGuid == "g1"

\* a call of user_can_access_file
CheckAccess ==
    /\ ~classify.done
    /\ classify' = [classify EXCEPT
            !.result = user_can_access_file(classify.file_path, classify.user_access,
                                            QueryGuid, classify.folder_mappings),
            !.done = TRUE]
    /\ UNCHANGED <<library_enabled, connections, now, test_mode, delay_days, played, policy,
                   files, sonarr, calls, watched_episodes, process_logs, process_runs, pass,
                   progress, events>>

\* ---------------------------------------------------------------- specification
RequiredUsers == {"ua", "ub"}
\* the (user, item) pairs whose played flag a pass reads
RequiredPairs ==
    {pair \in RequiredUsers \X Items :
        \E k \in DOMAIN EmbyLibrary :
            /\ EmbyLibrary[k].id = Episode(pair[2]).ParentId
            /\ EmbyLibrary[k].is_enabled
            /\ pair[1] \in Range(get_library_required_users(EmbyLibrary[k].id))}

InitSystem ==
    /\ now = 0
    /\ played = [u \in RequiredUsers |-> Items]
    /\ policy = [u \in Users |-> IF u \in excluded_user_ids THEN Restricted ELSE AllFolders]
    /\ files = Paths
    /\ sonarr = [files |-> {P1}, monitored |-> {1, 2}, season_monitored |-> TRUE]
    /\ calls = {}
    /\ watched_episodes = <<>>
    /\ process_logs = <<>>
    /\ process_runs = <<>>
    /\ pass = [t \in Triggers |-> IdlePass]
    /\ progress = [is_running |-> FALSE, run_id |-> 0, processed_count |-> 0,
                   failed_count |-> 0, bytes_reclaimed |-> 0]
    /\ events = 0

Init ==
    /\ InitSystem
    /\ test_mode \in BOOLEAN
    /\ delay_days \in 0..MaxDelay
    /\ classify = NoQuery
    /\ connections = Services
    /\ library_enabled = {"L1", "L2", "L3"}

\* the steps of a pass in progress, the manual actions and the environment
Steps ==
    \/ \E self \in Triggers : ProcessEpisode(self)
    \/ \E self \in Triggers : AbortEpisode(self)
    \/ \E self \in Triggers : CommitLibrary(self)
    \/ \E self \in Triggers : FinishPass(self)
    \/ \E i \in 1..Cardinality(Paths) : ProcessPending(i)
    \/ ToggleTestMode
    \/ \E pair \in RequiredPairs : SetPlayed(pair[1], pair[2])
    \/ \E u \in Users, c \in PolicyChoices : SetPolicy(u, c)
    \/ Tick

\* api.trigger_process and scheduler.scheduled_process start a pass whenever
\* they are called: nothing keeps two passes from overlapping
Next ==
    \/ \E self \in Triggers : StartPass(self)
    \/ \E self \in Triggers : RefusePass(self)
    \/ \E self \in Triggers : FailStart(self)
    \/ \E service \in Services : save_connection(service)
    \/ \E file_path \in Paths : SonarrForget(file_path)
    \/ delete_orphans
    \/ \E i \in 1..MaxEvents : process_single_episode(i)
    \/ \E k \in DOMAIN EmbyLibrary : toggle_library(EmbyLibrary[k].id)
    \/ Steps

Spec == Init /\ [][Next]_vars

\* the passes of a deployment that runs one pass at a time: the scheduler keeps
\* one instance of its job (AsyncIOScheduler's default), and nobody posts
\* /process while a pass is in progress
NextSerial ==
    \/ \E self \in Triggers : (\A t \in Triggers : pass[t].pc = "idle") /\ StartPass(self)
    \/ Steps

SpecSerial == Init /\ [][NextSerial]_vars

\* overlapping passes and manual processing while the media server and the
\* settings stay as they are
NextOverlap ==
    \/ \E self \in Triggers : StartPass(self)
    \/ \E self \in Triggers : ProcessEpisode(self)
    \/ \E self \in Triggers : CommitLibrary(self)
    \/ \E self \in Triggers : FinishPass(self)
    \/ \E i \in 1..Cardinality(Paths) : ProcessPending(i)

SpecOverlap == Init /\ [][NextOverlap]_vars

\* passes one after the other while the media server's watched and access
\* state stays as it is: only the days pass and test mode is switched
NextStable ==
    \/ \E self \in Triggers : (\A t \in Triggers : pass[t].pc = "idle") /\ StartPass(self)
    \/ \E self \in Triggers : ProcessEpisode(self)
    \/ \E self \in Triggers : CommitLibrary(self)
    \/ \E self \in Triggers : FinishPass(self)
    \/ ToggleTestMode
    \/ Tick

SpecStable == Init /\ [][NextStable]_vars

\* an installation from any state of its connection settings on: passes one
\* after the other, refused while a client is missing
InitClients ==
    /\ InitSystem
    /\ test_mode \in BOOLEAN
    /\ delay_days \in 0..MaxDelay
    /\ classify = NoQuery
    /\ connections \in SUBSET Services
    /\ library_enabled = {"L1", "L2", "L3"}

NextClients ==
    \/ \E self \in Triggers : (\A t \in Triggers : pass[t].pc = "idle") /\ RefusePass(self)
    \/ \E service \in Services : save_connection(service)
    \/ NextStable

SpecClients == InitClients /\ [][NextClients]_vars

\* overlapping passes while test mode is switched on and off
NextMixed ==
    \/ \E self \in Triggers : StartPass(self)
    \/ \E self \in Triggers : ProcessEpisode(self)
    \/ \E self \in Triggers : CommitLibrary(self)
    \/ \E self \in Triggers : FinishPass(self)
    \/ ToggleTestMode

SpecMixed == Init /\ [][NextMixed]_vars

\* passes one after the other, with the manual actions on the log rows and an
\* inventory that may drop a file
NextLogs ==
    \/ \E self \in Triggers : (\A t \in Triggers : pass[t].pc = "idle") /\ StartPass(self)
    \/ \E self \in Triggers : ProcessEpisode(self)
    \/ \E self \in Triggers : CommitLibrary(self)
    \/ \E self \in Triggers : FinishPass(self)
    \/ \E file_path \in Paths : SonarrForget(file_path)
    \/ delete_orphans
    \/ \E i \in 1..MaxEvents : process_single_episode(i)

SpecLogs == Init /\ [][NextLogs]_vars

\* passes one after the other while library L5, whose folder is a prefix of
\* P1's path, is switched on and off
NextSweep ==
    \/ toggle_library("L5")
    \/ NextStable

SpecSweep == Init /\ [][NextSweep]_vars

\* the classifier on every drawn input
InitClassify ==
    /\ InitSystem
    /\ test_mode = TRUE
    /\ delay_days = 0
    /\ classify \in [file_path : QueryFiles, folder_mappings : QueryMappings,
                     result : {None}, done : {FALSE}]
    /\ connections = Services
    /\ library_enabled = {"L1", "L2", "L3"}

SpecClassify == InitClassify /\ [][Classify]_vars

\* live passes one after the other on an inventory in which the season's other
\* episode is monitored or has been unmonitored by the inventory's operator
InitSeason ==
    /\ now = 0
    /\ played = [u \in RequiredUsers |-> Items]
    /\ policy = [u \in Users |-> IF u \in excluded_user_ids THEN Restricted ELSE AllFolders]
    /\ files = Paths
    /\ sonarr \in [files : {{P1}}, monitored : {{1, 2}, {1}}, season_monitored : {TRUE}]
    /\ calls = {}
    /\ watched_episodes = <<>>
    /\ process_logs = <<>>
    /\ process_runs = <<>>
    /\ pass = [t \in Triggers |-> IdlePass]
    /\ progress = [is_running |-> FALSE, run_id |-> 0, processed_count |-> 0,
                   failed_count |-> 0, bytes_reclaimed |-> 0]
    /\ events = 0
    /\ test_mode = FALSE
    /\ delay_days \in 0..MaxDelay
    /\ classify = NoQuery
    /\ connections = Services
    /\ library_enabled = {"L1", "L2", "L3"}

NextSeason ==
    \/ \E self \in Triggers : (\A t \in Triggers : pass[t].pc = "idle") /\ StartPass(self)
    \/ \E self \in Triggers : ProcessEpisode(self)
    \/ \E self \in Triggers : CommitLibrary(self)
    \/ \E self \in Triggers : FinishPass(self)
    \/ Tick

SpecSeason == InitSeason /\ [][NextSeason]_vars

\* passes one after the other on a library with two candidates, while the
\* media server may drop a connection
\* the policy of a user who is given the second library only, without /a/b
SecondLibraryOnly ==
    [all_access |-> FALSE, enabled_folders |-> {"g2"}, excluded_subfolders |-> {21}]

InitAbort ==
    /\ now = 0
    /\ played = [u \in RequiredUsers |-> Items \cup {"e5"}]
    /\ policy = [u \in Users |-> IF u \in excluded_user_ids THEN SecondLibraryOnly
                                  ELSE AllFolders]
    /\ files = Paths
    /\ sonarr = [files |-> {P1}, monitored |-> {1, 2}, season_monitored |-> TRUE]
    /\ calls = {}
    /\ watched_episodes = <<>>
    /\ process_logs = <<>>
    /\ process_runs = <<>>
    /\ pass = [t \in Triggers |-> IdlePass]
    /\ progress = [is_running |-> FALSE, run_id |-> 0, processed_count |-> 0,
                   failed_count |-> 0, bytes_reclaimed |-> 0]
    /\ events = 0
    /\ test_mode \in BOOLEAN
    /\ delay_days \in 0..MaxDelay
    /\ classify = NoQuery
    /\ connections = Services
    /\ library_enabled = {"L1", "L2", "L3"}

NextAbort ==
    \/ \E self \in Triggers : (\A t \in Triggers : pass[t].pc = "idle") /\ StartPass(self)
    \/ \E self \in Triggers : (\A t \in Triggers : pass[t].pc = "idle") /\ FailStart(self)
    \/ \E self \in Triggers : ProcessEpisode(self)
    \/ \E self \in Triggers : AbortEpisode(self)
    \/ \E self \in Triggers : CommitLibrary(self)
    \/ \E self \in Triggers : FinishPass(self)
    \/ Tick

SpecAbort == InitAbort /\ [][NextAbort]_vars

\* a live installation in which every call of the media server, of the
\* inventory and of the file system succeeds: passes one after the other, each
\* run to its end, while the clock advances as long as a pending record waits
\* for its delay
InitLive ==
    /\ InitSystem
    /\ test_mode = FALSE
    /\ delay_days \in 0..MaxDelay
    /\ classify = NoQuery
    /\ connections = Services
    /\ library_enabled = {"L1", "L2", "L3"}

LiveStart(self) ==
    /\ \A t \in Triggers : pass[t].pc = "idle"
    /\ StartPass(self)
    /\ events' = events + 1

LiveEpisode(self) == ProcessEpisode(self) /\ events' = events

LiveCommit(self) == CommitLibrary(self) /\ events' = events

LiveTick ==
    /\ \E i \in DOMAIN watched_episodes :
          now - watched_episodes[i].first_seen_at < delay_days
    /\ Tick

NextLive ==
    \/ \E self \in Triggers : LiveStart(self)
    \/ \E self \in Triggers : LiveEpisode(self)
    \/ \E self \in Triggers : LiveCommit(self)
    \/ \E self \in Triggers : FinishPass(self)
    \/ LiveTick

\* the scheduler keeps firing its job and the task of a pass runs to its end
Fairness ==
    /\ WF_vars(\E self \in Triggers : LiveStart(self))
    /\ WF_vars(\E self \in Triggers : LiveEpisode(self))
    /\ WF_vars(\E self \in Triggers : LiveCommit(self))
    /\ WF_vars(\E self \in Triggers : FinishPass(self))

SpecLive == InitLive /\ [][NextLive]_vars /\ Fairness

\* live passes one after the other on a media server that holds any part of
\* the users the application has stored: get_all_user_access_details answers
\* for the accounts GET /Users lists, and a required or excluded user whose
\* account was removed has no entry in the map
InitAccounts ==
    /\ now = 0
    /\ played = [u \in RequiredUsers |-> Items]
    /\ policy \in UNION {[present -> PolicyChoices] : present \in SUBSET Users}
    /\ files = Paths
    /\ sonarr = [files |-> {P1}, monitored |-> {1, 2}, season_monitored |-> TRUE]
    /\ calls = {}
    /\ watched_episodes = <<>>
    /\ process_logs = <<>>
    /\ process_runs = <<>>
    /\ pass = [t \in Triggers |-> IdlePass]
    /\ progress = [is_running |-> FALSE, run_id |-> 0, processed_count |-> 0,
                   failed_count |-> 0, bytes_reclaimed |-> 0]
    /\ events = 0
    /\ test_mode = FALSE
    /\ delay_days = 0
    /\ classify = NoQuery
    /\ connections = Services
    /\ library_enabled = {"L1", "L2", "L3"}

NextAccounts ==
    \/ \E self \in Triggers : (\A t \in Triggers : pass[t].pc = "idle") /\ StartPass(self)
    \/ \E self \in Triggers : ProcessEpisode(self)
    \/ \E self \in Triggers : CommitLibrary(self)
    \/ \E self \in Triggers : FinishPass(self)
    \/ \E pair \in RequiredPairs : SetPlayed(pair[1], pair[2])

SpecAccounts == InitAccounts /\ [][NextAccounts]_vars

\* the series lookup on every drawn input
InitSeries ==
    /\ InitSystem
    /\ test_mode = TRUE
    /\ delay_days = 0
    /\ classify \in [file_path : QueryFiles, series_list : QuerySeries,
                     result : {None}, done : {FALSE}]
    /\ connections = Services
    /\ library_enabled = {"L1", "L2", "L3"}

SpecSeries == InitSeries /\ [][ResolveSeries]_vars

\* the access decision on every drawn input
InitAccess ==
    /\ InitSystem
    /\ test_mode = TRUE
    /\ delay_days = 0
    /\ classify \in [file_path : QueryFiles, folder_mappings : QueryMappings,
                     user_access : QueryPolicies, result : {None}, done : {FALSE}]
    /\ connections = Services
    /\ library_enabled = {"L1", "L2", "L3"}

SpecAccess == InitAccess /\ [][CheckAccess]_vars

\* ---------------------------------------------------------------- properties
\* the steps of the model, recognised in a pair of states
EpisodeStep(t) ==
    /\ pass[t].pc = "episodes"
    /\ pass[t].todo # <<>>
    /\ pass'[t].pc = "episodes"
    /\ pass'[t].todo = Tail(pass[t].todo)

\* C8: get_subfolder_id_for_path returns the id of a mapping whose path is a
\* prefix of the file path and is at least as long as every mapping path that
\* is a prefix of it, and returns None exactly when no mapping path is a prefix.
C8_LongestPrefixWins ==
    classify.done =>
        LET fp == classify.file_path
            fm == classify.folder_mappings
            matching == {k \in 1..Len(fm) : startswith(fp, fm[k][2])}
        IN  /\ (classify.result = None) <=> (matching = {})
            /\ classify.result # None =>
                 \E k \in matching :
                    /\ fm[k][1] = classify.result
                    /\ \A j \in matching : Len(fm[j][2]) <= Len(fm[k][2])

\* C8 happens: two mapping paths of different lengths are prefixes of the file
\* path, the shorter comes first in the dict, and the longer one's id is returned
C8_Witness ==
    /\ classify.done
    /\ Len(classify.folder_mappings) = 2
    /\ startswith(classify.file_path, classify.folder_mappings[1][2])
    /\ startswith(classify.file_path, classify.folder_mappings[2][2])
    /\ Len(classify.folder_mappings[1][2]) < Len(classify.folder_mappings[2][2])
    /\ classify.result = classify.folder_mappings[2][1]

\* the original of file_path is deleted by the step
OriginalDeleted(file_path) == file_path \in files /\ file_path \notin files'

\* the step persists a successful non-test log row for file_path
SuccessLogged(file_path) ==
    \E i \in DOMAIN process_logs' :
        /\ i > Len(process_logs)
        /\ process_logs'[i].original_path = file_path
        /\ process_logs'[i].success
        /\ ~process_logs'[i].test_mode

\* the access details in force for the step: those its pass loaded when it
\* started, or the media server's own for a manual action
StepAccess ==
    IF \E t \in Triggers : pass'[t] # pass[t]
    THEN pass[CHOOSE t \in Triggers : pass'[t] # pass[t]].user_access
    ELSE policy

\* some excluded user can access file_path through a library that holds it
ExcludedCanAccess(file_path, user_access_map) ==
    \E u \in excluded_user_ids, k \in DOMAIN EmbyLibrary :
        /\ \E m \in Range(get_folder_mappings(EmbyLibrary[k].id)) : startswith(file_path, m[2])
        /\ user_can_access_file(file_path, access_of(user_access_map, u),
                                EmbyLibrary[k].guid, get_folder_mappings(EmbyLibrary[k].id))

\* C1: no operation evicts a file that an excluded user can access: its original
\* is not deleted and no successful non-test log row is written for it, by a
\* pass or by the manual processing of pending rows.
C1_ExcludedVeto ==
    [][\A file_path \in Paths :
          ExcludedCanAccess(file_path, StepAccess)
              => ~OriginalDeleted(file_path) /\ ~SuccessLogged(file_path)]_vars

\* the step is taken by the pass of trigger t, its start included
PassStep(t) == pass'[t] # pass[t]

\* the pass of trigger t runs, before or after the step, in test mode
InTestMode(t) ==
    \/ pass[t].pc # "idle" /\ pass[t].test_mode
    \/ pass[t].pc = "idle" /\ pass'[t].pc # "idle" /\ pass'[t].test_mode

\* C2: a pass started in test mode calls no mutation of the inventory system and
\* deletes no pending record, from its stale-record sweep to its finalization.
C2_TestModeIsInert ==
    [][\A t \in Triggers :
          PassStep(t) /\ InTestMode(t)
              => /\ calls' = calls
                 /\ Range(watched_episodes) \subseteq Range(watched_episodes')]_vars

\* the pending rows of file_path that the session of trigger t sees
PendingSeen(t, file_path) ==
    SelectSeq(view_watched(pass[t].session), LAMBDA r : r.file_path = file_path)

\* C3: a candidate whose pending record was first seen at T is not evicted while
\* now - T < delay_days, and is treated as ready once now - T >= delay_days (the
\* boundary day included); with delay_days = 0 an existing record is always ready.
C3_DelayEnforced ==
    [][\A t \in Triggers :
          EpisodeStep(t) /\ pass'[t].outcome \in {"delayed", "test", "evicted", "failed"}
              => LET seen == PendingSeen(t, Episode(Head(pass[t].todo)).Path)
                 IN  /\ Len(seen) = 1
                     /\ IF delay_days > 0 /\ now - seen[1].first_seen_at < delay_days
                        THEN /\ pass'[t].outcome = "delayed"
                             /\ files' = files
                             /\ pass'[t].session.logs = pass[t].session.logs
                        ELSE pass'[t].outcome \in {"test", "evicted", "failed"}]_vars

\* C3 happens: with a delay of one day, a record first seen on day 0 is evicted
\* by a pass on day 1, the boundary day
C3_Witness ==
    /\ delay_days = 1
    /\ now = 1
    /\ \E t \in Triggers : pass[t].outcome = "evicted"

\* the commit of a library by the pass of trigger t
CommitStep(t) ==
    /\ pass[t].pc = "episodes"
    /\ pass[t].todo = <<>>
    /\ PassStep(t)
    /\ pass'[t].error = ""

AccessibleRequired(t, file_path) ==
    {u \in Range(pass[t].required_users) :
        user_can_access_file(file_path, access_of(pass[t].user_access, u),
                             pass[t].library_guid, pass[t].folder_mappings)}

\* C7: a candidate that no required user of the library can access is not
\* evicted, and the pass adds no pending record and no log row for it.
C7_NoAccessibleUserNoEffect ==
    [][\A t \in Triggers :
          EpisodeStep(t) /\ AccessibleRequired(t, Episode(Head(pass[t].todo)).Path) = {}
              => /\ files' = files
                 /\ sonarr' = sonarr
                 /\ calls' = calls
                 /\ pass'[t].session = pass[t].session
                 /\ pass'[t].total_processed = pass[t].total_processed
                 /\ pass'[t].total_failed = pass[t].total_failed]_vars

\* C7 happens: every required user has played the episode, no excluded user can
\* access the file, and the pass has turned the candidate down for want of a
\* required user who can access it
C7_Witness ==
    \E t \in Triggers :
        /\ pass[t].outcome = "no_access"
        /\ pass[t].pc = "episodes"
        /\ \A i \in DOMAIN pass[t].required_users :
              Items \subseteq played[pass[t].required_users[i]]
        /\ \A u \in pass[t].excluded_user_ids :
              ~user_can_access_file(P1, access_of(pass[t].user_access, u),
                                    pass[t].library_guid, pass[t].folder_mappings)

\* C9: there is at most one pending record per file path, and no pass fails on
\* the insert of a second one, also when a scheduled and a manually triggered
\* pass work on the same file at the same time.
C9_OneRecordPerPath ==
    /\ unique_file_path(watched_episodes)
    /\ \A t \in Triggers : pass[t].error # "IntegrityError"

\* C10: a file whose pending record was created by the pass is not evicted by
\* that same pass, whatever delay_days is: the pass leaves the file in place
\* and writes no log row for it.
C10_NoEvictionOnFirstObservation ==
    [][\A t \in Triggers :
          EpisodeStep(t) /\ Episode(Head(pass[t].todo)).Path \in pass[t].created
              => /\ files' = files
                 /\ pass'[t].session.logs = pass[t].session.logs]_vars

\* the finalization of the pass of trigger t
FinishStep(t) == pass[t].pc = "finalize" /\ pass'[t].pc = "idle"

\* a successful non-test log row for file_path is among rows
Evicted(rows, file_path) ==
    \E i \in DOMAIN rows :
        rows[i].original_path = file_path /\ rows[i].success /\ ~rows[i].test_mode

StartStep(t) == pass[t].pc = "idle" /\ pass'[t].pc # "idle"

\* some required user of a library that holds the file can access it and does
\* not report it watched
Stale(file_path) ==
    \E k \in DOMAIN EmbyLibrary :
        /\ EmbyLibrary[k].is_enabled
        /\ \E m \in Range(get_folder_mappings(EmbyLibrary[k].id)) : startswith(file_path, m[2])
        /\ \E u \in Range(get_library_required_users(EmbyLibrary[k].id)) :
              /\ user_can_access_file(file_path, access_of(policy, u), EmbyLibrary[k].guid,
                                      get_folder_mappings(EmbyLibrary[k].id))
              /\ \A ep \in Range(get_watched_episodes(u, EmbyLibrary[k].id)) :
                    ep.Path # file_path

\* C5: a pending record whose file some required user with access no longer
\* reports watched is deleted by the sweep at the start of the next pass, before
\* any candidate is processed; a record created afterwards for the file is new
\* and carries the time of its creation as first_seen_at.
C5_StaleRecordsSwept ==
    [][\A t \in Triggers :
          /\ StartStep(t)
                => \A r \in Range(watched_episodes) :
                      Stale(r.file_path) => r \notin Range(watched_episodes')
          /\ EpisodeStep(t) /\ pass'[t].outcome = "created"
                => LET file_path == Episode(Head(pass[t].todo)).Path
                       ins == pass'[t].session.ins
                   IN  /\ PendingSeen(t, file_path) = <<>>
                       /\ ins = Append(pass[t].session.ins, ins[Len(ins)])
                       /\ ins[Len(ins)].file_path = file_path
                       /\ ins[Len(ins)].first_seen_at = now]_vars

\* C5 happens: the pass started from a record first seen on day 0, its sweep
\* deleted it, and the record now kept for the file was first seen on day 1
C5_Witness ==
    /\ now = 1
    /\ Len(watched_episodes) = 1
    /\ watched_episodes[1].first_seen_at = 1
    /\ \E t \in Triggers :
          /\ pass[t].pc # "idle"
          /\ \E r \in pass[t].pending_at_start :
                r.file_path = watched_episodes[1].file_path /\ r.first_seen_at = 0

\* the library rows with that id
LibraryOf(e) == {l \in Range(EmbyLibrary) : l.id = Episode(e).ParentId}

\* the paths that only episodes of disabled libraries, or of libraries with no
\* required user, have
SkippedPaths ==
    {file_path \in Paths :
        \A e \in Items :
            Episode(e).Path = file_path
                => \A l \in LibraryOf(e) :
                      ~l.is_enabled \/ get_library_required_users(l.id) = <<>>}

\* file_path has a pending row or a log row, persisted or in a pass's session
Touched(file_path) ==
    \/ \E r \in Range(watched_episodes) : r.file_path = file_path
    \/ \E l \in Range(process_logs) : l.original_path = file_path
    \/ \E t \in Triggers :
          \/ \E r \in Range(pass[t].session.ins) : r.file_path = file_path
          \/ \E l \in Range(pass[t].session.logs) : l.original_path = file_path

\* C11: for an episode that comes only from a disabled library or from a library
\* with no required user, no pass creates a pending record, writes a log row or
\* runs the eviction transaction: its file stays and nothing is recorded for it.
C11_SkippedLibrariesUntouched ==
    \A file_path \in SkippedPaths :
        /\ ~Touched(file_path)
        /\ file_path \in files
        /\ \A t \in Triggers : pass[t].pc = "episodes" =>
              \A i \in DOMAIN pass[t].todo : Episode(pass[t].todo[i]).Path # file_path

\* C11 happens: a pass has gone through every library while a required user of
\* the disabled library has the episode played, as has every user the episode of
\* the library without required users
C11_Witness ==
    /\ SkippedPaths = {P2}
    /\ \A u \in RequiredUsers : {"e3", "e4"} \subseteq played[u]
    /\ \E t \in Triggers : pass[t].pc = "finalize" /\ pass[t].error = ""
                           /\ pass[t].libraries = <<>>

\* the log row the pass of trigger t has added in the step
AddedLog(t) == pass'[t].session.logs[Len(pass'[t].session.logs)]

\* the step of trigger t ran the eviction transaction on its candidate
TransactionStep(t) == EpisodeStep(t) /\ pass'[t].outcome \in {"evicted", "failed"}

\* C12: the transaction of a non-test pass unmonitors the episode, unmonitors the
\* season, deletes the original, creates the placeholder, refreshes the series
\* and renames, in that order.  The first step that fails ends it: no later
\* step has an effect, the effects of the earlier steps stay with their flags
\* set, and the row is marked failed with the text of the exception.
C12_OrderedAbortingSteps ==
    [][\A t \in Triggers :
          TransactionStep(t)
              => LET episode == Episode(Head(pass[t].todo))
                     file_path == episode.Path
                     strm_path == with_suffix_strm(file_path)
                     ids == {ep.id : ep \in find_episode(episode.ParentIndexNumber,
                                                         episode.IndexNumber)}
                     log == AddedLog(t)
                     refresh == [op |-> "refresh_series", by |-> pass[t].run_id]
                     rename == [op |-> "rename_files", by |-> pass[t].run_id]
                 IN  /\ Len(pass'[t].session.logs) = Len(pass[t].session.logs) + 1
                     /\ ~log.test_mode
                     \* the order: a step is done only after the ones before it
                     /\ log.season_unmonitored => log.sonarr_unmonitored
                     /\ log.file_deleted => log.sonarr_unmonitored
                     /\ log.strm_created => log.sonarr_unmonitored /\ file_path \notin files'
                     /\ refresh \in calls' \ calls => log.strm_created
                     /\ log.sonarr_renamed => log.strm_created /\ refresh \in calls'
                     \* the steps done are not undone, and are flagged
                     /\ log.sonarr_unmonitored => sonarr'.monitored = sonarr.monitored \ ids
                                                  /\ ids # {}
                     /\ log.season_unmonitored => ~sonarr'.season_monitored
                     /\ log.file_deleted <=> OriginalDeleted(file_path)
                     /\ log.strm_created => files' = (files \ {file_path}) \cup {strm_path}
                     /\ log.sonarr_renamed => rename \in calls'
                     \* the steps not done have no effect
                     /\ ~log.sonarr_unmonitored => sonarr' = sonarr /\ calls' = calls
                     /\ ~log.file_deleted => files \subseteq files'
                     /\ ~log.strm_created => files' \subseteq files
                                             /\ sonarr'.files = sonarr.files
                     /\ ~log.sonarr_renamed => rename \notin calls' \ calls
                     \* the outcome
                     /\ pass'[t].outcome = "evicted"
                            => log.success /\ log.error_message = "" /\ log.strm_created
                     /\ pass'[t].outcome = "failed"
                            => ~log.success /\ log.error_message # ""]_vars

\* C12 happens: the placeholder could not be created: the episode is unmonitored
\* and the original deleted, both flagged, and nothing after that was done
C12_Witness ==
    \E t \in Triggers :
        /\ pass[t].outcome = "failed"
        /\ pass[t].session.logs # <<>>
        /\ LET log == pass[t].session.logs[Len(pass[t].session.logs)]
           IN  /\ log.error_message = "OSError"
               /\ log.sonarr_unmonitored /\ log.file_deleted
               /\ ~log.strm_created /\ ~log.sonarr_renamed
               /\ log.original_path \notin files
               /\ with_suffix_strm(log.original_path) \notin files
               /\ [op |-> "refresh_series", by |-> pass[t].run_id] \notin calls

\* C13: a test-mode pass runs no transaction; for a ready candidate it adds one
\* log row with test_mode and success set and the five step flags unset, calls
\* neither the inventory nor the file system, and leaves the pending record as
\* it is, first_seen_at included.
C13_TestModeSimulates ==
    [][\A t \in Triggers :
          EpisodeStep(t) /\ pass[t].test_mode
              => /\ pass'[t].outcome \notin {"evicted", "failed"}
                 /\ files' = files /\ sonarr' = sonarr /\ calls' = calls
                 /\ pass'[t].session.dels = pass[t].session.dels
                 /\ pass'[t].outcome = "test"
                      => LET file_path == Episode(Head(pass[t].todo)).Path
                             log == AddedLog(t)
                         IN  /\ pass'[t].session.logs = Append(pass[t].session.logs, log)
                             /\ log.original_path = file_path
                             /\ log.test_mode /\ log.success
                             /\ ~log.sonarr_unmonitored /\ ~log.season_unmonitored
                             /\ ~log.file_deleted /\ ~log.strm_created
                             /\ ~log.sonarr_renamed
                             /\ Len(PendingSeen(t, file_path)) = 1
                             /\ pass'[t].session.ins = pass[t].session.ins
                             /\ watched_episodes' = watched_episodes]_vars

\* C13 happens: a test-mode pass has simulated the eviction of P1: the row is in
\* its session, the file and its pending record are where they were
C13_Witness ==
    \E t \in Triggers :
        /\ pass[t].test_mode
        /\ pass[t].outcome = "test"
        /\ \E l \in Range(pass[t].session.logs) : l.test_mode /\ l.original_path = P1
        /\ P1 \in files
        /\ \E r \in Range(watched_episodes) : r.file_path = P1
        /\ calls = {}

ReachedTracker(t) ==
    pass'[t].outcome \in {"created", "delayed", "test", "evicted", "failed"}

\* C14: a candidate gets to the delay tracker only when every required user who
\* can access the file has answered the status query with Played; an answer of
\* not played, or a response other than 200 (which takes one event of the
\* budget), turns the candidate down and the pass adds neither a pending record
\* nor a log row for it.
C14_UnanimousWatched ==
    [][\A t \in Triggers :
          EpisodeStep(t) =>
              LET episode == Episode(Head(pass[t].todo))
                  asked == AccessibleRequired(t, episode.Path)
                  unanimous == \A u \in asked : episode.Id \in played[u]
              IN  /\ ReachedTracker(t) =>
                         /\ asked # {}
                         /\ unanimous
                         /\ \/ events' = events
                            \/ pass'[t].outcome = "failed" /\ events' = events + 1
                  /\ ~unanimous =>
                         /\ ~ReachedTracker(t)
                         /\ pass'[t].session = pass[t].session
                         /\ files' = files /\ sonarr' = sonarr /\ calls' = calls
                  /\ pass'[t].outcome = "not_watched" =>
                         /\ pass'[t].session = pass[t].session
                         /\ files' = files /\ sonarr' = sonarr /\ calls' = calls]_vars

\* C14 happens: "ua" has played e1 and "ub", who can access it as well, has not;
\* the pass over L1 has turned e1 down and holds no record and no row
C14_Witness ==
    \E t \in Triggers :
        /\ pass[t].outcome = "not_watched"
        /\ pass[t].library_guid = "g1"
        /\ pass[t].pc = "episodes"
        /\ AccessibleRequired(t, P1) = {"ua", "ub"}
        /\ "e1" \in played["ua"]
        /\ "e1" \notin played["ub"]
        /\ pass[t].session = EmptySession
        /\ watched_episodes = <<>>

Unavailable == ~(Services \subseteq connections)

\* C15: while the connection of the media server or of the inventory is missing
\* or unverified, a trigger creates no run row and leaves the log rows, the run
\* rows, the pending records and the progress state as they are; no pass gets
\* past its first lines.
C15_NoClientsNoPass ==
    [][Unavailable =>
          /\ process_runs' = process_runs
          /\ process_logs' = process_logs
          /\ watched_episodes' = watched_episodes
          /\ progress' = progress
          /\ files' = files /\ sonarr' = sonarr /\ calls' = calls
          /\ \A t \in Triggers : pass'[t].pc = "idle" /\ pass'[t].run_id = 0]_vars

\* C15 happens: the inventory's connection is missing, a trigger has been
\* turned down, and there is no run row and no pass in progress
C15_Witness ==
    /\ connections = {"emby"}
    /\ pass["manual"].outcome = "refused"
    /\ events > 0
    /\ process_runs = <<>>
    /\ ~progress.is_running
    /\ \A t \in Triggers : pass[t].pc = "idle"

IsPrefix(rows, longer) ==
    /\ Len(rows) <= Len(longer)
    /\ \A i \in DOMAIN rows : longer[i] = rows[i]

Escaped(t) == pass[t].pc = "finalize" /\ pass[t].error # ""

\* C17: when an exception has left the library loop, the pass ends with its run
\* row failed and carrying the exception's message, and the log rows and pending
\* records committed for the earlier libraries stay as they were committed.
C17_EscapedExceptionFailsRun ==
    [][\A t \in Triggers :
          FinishStep(t) /\ Escaped(t) =>
              /\ \A i \in DOMAIN process_runs' :
                    process_runs'[i].id = pass[t].run_id
                        => /\ process_runs'[i].status = "failed"
                           /\ process_runs'[i].error_message = pass[t].error
              /\ IsPrefix(process_logs, process_logs')
              /\ IsPrefix(watched_episodes, watched_episodes')]_vars

RunOf(rows, t) == SelectSeq(rows, LAMBDA r : r.id = pass[t].run_id)

\* C18: when a pass terminates, the run row it created is no longer running: it
\* is completed or failed, whatever was raised while the libraries were processed.
C18_RunFinalized ==
    [][\A t \in Triggers :
          FinishStep(t) =>
              \A r \in Range(RunOf(process_runs', t)) : r.status \in {"completed", "failed"}]_vars

\* C16: a transaction that fails (file, series or episode not found in the
\* inventory, or an error of the file system) fails its candidate alone: the pass
\* adds one log row for it, not successful and carrying the error text, counts
\* it, and goes on with the rest of the library and the later libraries; a pass
\* that no exception ended finishes its run row as completed with
\* episodes_failed the number of candidates that failed.
C16_FailureIsPerCandidate ==
    [][\A t \in Triggers :
          /\ EpisodeStep(t) /\ pass'[t].outcome = "failed" =>
                LET log == AddedLog(t)
                IN  /\ pass'[t].session.logs = Append(pass[t].session.logs, log)
                    /\ log.original_path = Episode(Head(pass[t].todo)).Path
                    /\ ~log.success /\ ~log.test_mode
                    /\ log.error_message # ""
                    /\ pass'[t].total_failed = pass[t].total_failed + 1
                    /\ pass'[t].total_processed = pass[t].total_processed
                    /\ pass'[t].error = ""
                    /\ pass'[t].libraries = pass[t].libraries
                    /\ pass'[t].session.ins = pass[t].session.ins
                    /\ pass'[t].session.dels = pass[t].session.dels
          /\ pass[t].pc = "episodes" /\ pass[t].todo # <<>> /\ pass'[t] # pass[t]
                /\ pass'[t].error = ""
                => pass'[t].pc = "episodes" /\ pass'[t].todo = Tail(pass[t].todo)
          /\ FinishStep(t) /\ ~Escaped(t) =>
                \A i \in DOMAIN process_runs' :
                    process_runs'[i].id = pass[t].run_id
                        => /\ process_runs'[i].status = "completed"
                           /\ process_runs'[i].episodes_failed = pass[t].total_failed]_vars

\* C16 happens: the run of a pass that is over is completed and counts one
\* failed candidate, whose row, with the text of a lookup failure, is persisted
C16_Witness ==
    /\ \A t \in Triggers : pass[t].pc = "idle"
    /\ \E i \in DOMAIN process_runs :
          /\ process_runs[i].status = "completed"
          /\ process_runs[i].episodes_failed = 1
    /\ \E j \in DOMAIN process_logs :
          /\ ~process_logs[j].success
          /\ ~process_logs[j].file_deleted
          /\ process_logs[j].error_message # ""

TestRows(rows) == SelectSeq(rows, LAMBDA r : r.test_mode)

\* C19: the purge at the start of a pass leaves no test-mode log row and no
\* test-mode run row but the pass's own, and when a live pass is over the tables
\* hold no test-mode log row and no test-mode run row.
C19_NoTestRowsAfterLivePass ==
    [][\A t \in Triggers :
          /\ StartStep(t) =>
                /\ TestRows(process_logs') = <<>>
                /\ \A r \in Range(TestRows(process_runs')) : r.id = pass'[t].run_id
          /\ FinishStep(t) /\ ~pass[t].test_mode =>
                /\ TestRows(process_logs') = <<>>
                /\ TestRows(process_runs') = <<>>]_vars

NonTest(rows) == SelectSeq(rows, LAMBDA r : ~r.test_mode)

\* C20: a persisted log row that is not of test mode stays as the pass wrote it:
\* whatever step is taken, the rows of that kind are the ones there were, in
\* their order and with every column unchanged, followed by the new ones. (The
\* manual retry of one row, which the claim sets apart, writes nothing.)
C20_LogRowsImmutable ==
    [][IsPrefix(NonTest(process_logs), NonTest(process_logs'))]_vars

\* the library holds an item for the file
Owns(library, file_path) ==
    \E e \in Items : Episode(e).ParentId = library.id /\ Episode(e).Path = file_path

\* (b) or (c) for the file in a library that holds it: no required user of the
\* library can access it, or one who can does not report it watched
StaleIn(library, file_path) ==
    LET folder_mappings == get_folder_mappings(library.id)
        able == {u \in Range(get_library_required_users(library.id)) :
                    user_can_access_file(file_path, access_of(policy, u), library.guid,
                                         folder_mappings)}
    IN  \/ able = {}
        \/ \E u \in able :
              \A ep \in Range(get_watched_episodes(u, library.id)) : ep.Path # file_path

\* C21: a pending record goes only (a) with the successful eviction of its file,
\* or, in the sweep, when in a library that holds the file (b) a required user
\* who can access it no longer reports it watched or (c) no required user can
\* access it; a record whose file is accessible to and watched by the accessible
\* required users of the libraries that hold it is not deleted, whatever other
\* enabled libraries have a folder that is a prefix of its path.
C21_PendingDeletedOnlyWhenDue ==
    [][\A r \in Range(watched_episodes) :
          r \notin Range(watched_episodes') =>
              \/ Evicted(process_logs', r.file_path)
              \/ /\ \E t \in Triggers : StartStep(t)
                 /\ \E l \in Range(EmbyLibrary) :
                       l.is_enabled /\ Owns(l, r.file_path) /\ StaleIn(l, r.file_path)]_vars

\* C22: at most one run row has status running, and at most one pass is between
\* the creation of its run row and its finalization.
C22_OneOpenRun ==
    /\ Len(SelectSeq(process_runs, LAMBDA r : r.status = "running")) <= 1
    /\ Cardinality({t \in Triggers : pass[t].pc # "idle"}) <= 1

\* C23: while settings.test_mode is on, no step deletes or creates a file and no
\* mutation request reaches the inventory.
C23_TestModeSettingIsInert ==
    [][test_mode => files' = files /\ calls' = calls]_vars

\* C24: user_can_access_file answers TRUE for a policy with unrestricted
\* access; otherwise FALSE when the library's guid is not among the enabled
\* folders; otherwise TRUE when no mapping path is a prefix of the file path;
\* otherwise TRUE exactly when the id of the longest mapping path that is a
\* prefix of the file path is not among the excluded subfolders.
C24_AccessDecision ==
    classify.done =>
        LET fp == classify.file_path
            fm == classify.folder_mappings
            ua == classify.user_access
            matching == {k \in 1..Len(fm) : startswith(fp, fm[k][2])}
            longest == {k \in matching : \A j \in matching : Len(fm[j][2]) <= Len(fm[k][2])}
        IN  IF ua.all_access THEN classify.result = TRUE
            ELSE IF QueryGuid \notin ua.enabled_folders THEN classify.result = FALSE
            ELSE IF matching = {} THEN classify.result = TRUE
            ELSE /\ classify.result = TRUE
                    => \E k \in longest : fm[k][1] \notin ua.excluded_subfolders
                 /\ classify.result = FALSE
                    => \E k \in longest : fm[k][1] \in ua.excluded_subfolders
                 /\ classify.result \in BOOLEAN

\* C24 happens: a restricted policy with the library enabled, no mapping path a
\* prefix of the file path, and the answer TRUE
C24_Witness ==
    /\ classify.done
    /\ ~classify.user_access.all_access
    /\ QueryGuid \in classify.user_access.enabled_folders
    /\ classify.folder_mappings # <<>>
    /\ \A k \in DOMAIN classify.folder_mappings :
          ~startswith(classify.file_path, classify.folder_mappings[k][2])
    /\ classify.result = TRUE

\* C25: the series a path is resolved to is one whose path is a prefix of it and
\* at least as long as the path of every series that is a prefix of it,
\* whatever the order of the inventory's series list.
C25_LongestSeriesWins ==
    classify.done =>
        LET fp == classify.file_path
            sl == classify.series_list
            matching == {k \in 1..Len(sl) : startswith(fp, sl[k].path)}
        IN  /\ (classify.result = None) <=> (matching = {})
            /\ classify.result # None =>
                 \E k \in matching :
                    /\ sl[k].id = classify.result
                    /\ \A j \in matching : Len(sl[j].path) <= Len(sl[k].path)

\* the season's episodes are all unmonitored in the inventory after the step
SeasonDone(season_number) ==
    \A ep \in SonarrEpisodes :
        ep.seasonNumber = season_number => ep.id \notin sonarr'.monitored

\* the request of the pass of trigger t that unmonitors the season
SeasonRequest(t) == [op |-> "set_season_monitored", by |-> pass[t].run_id]

\* C26 as stated: in a transaction that has unmonitored the episode, the season
\* is unmonitored and flagged exactly when every episode of the season is
\* then unmonitored; otherwise the season is left as it was.
C26_SeasonFollowsEpisodes ==
    [][\A t \in Triggers :
          TransactionStep(t) /\ AddedLog(t).sonarr_unmonitored
              => LET season == Episode(Head(pass[t].todo)).ParentIndexNumber
                     log == AddedLog(t)
                 IN  /\ log.season_unmonitored <=> SeasonDone(season)
                     /\ log.season_unmonitored => SeasonRequest(t) \in calls'
                     /\ ~log.season_unmonitored
                            => (SeasonRequest(t) \in calls' => SeasonRequest(t) \in calls)
                     /\ log.season_unmonitored => ~sonarr'.season_monitored
                     /\ ~SeasonDone(season)
                            => sonarr'.season_monitored = sonarr.season_monitored]_vars

\* C26 amended: the season is unmonitored and flagged only when every episode
\* of the season is unmonitored after the episode's update, and then always,
\* unless the season check or the season update raises: in that case the
\* season is left as it was, the flag stays false and the transaction ends
\* there as failed.  A season with an episode still monitored is untouched.
C26_SeasonFollowsEpisodesUnlessRaised ==
    [][\A t \in Triggers :
          TransactionStep(t) /\ AddedLog(t).sonarr_unmonitored
              => LET season == Episode(Head(pass[t].todo)).ParentIndexNumber
                     log == AddedLog(t)
                     raised == /\ ~log.success
                               /\ log.error_message = "HTTPError"
                               /\ ~log.file_deleted
                               /\ ~log.strm_created
                               /\ files' = files
                 IN  /\ log.season_unmonitored => SeasonDone(season)
                     /\ SeasonDone(season) => log.season_unmonitored \/ raised
                     /\ log.season_unmonitored => SeasonRequest(t) \in calls'
                     /\ ~log.season_unmonitored
                            => (SeasonRequest(t) \in calls' => SeasonRequest(t) \in calls)
                     /\ log.season_unmonitored => ~sonarr'.season_monitored
                     /\ ~log.season_unmonitored
                            => sonarr'.season_monitored = sonarr.season_monitored]_vars

\* the eviction of the season's last monitored episode is on record: the
\* episode and the season are unmonitored and the row carries both flags
C26_Witness ==
    /\ ~sonarr.season_monitored
    /\ sonarr.monitored = {}
    /\ [op |-> "set_season_monitored", by |-> 1] \in calls
    /\ \E i \in DOMAIN process_logs :
          /\ process_logs[i].sonarr_unmonitored
          /\ process_logs[i].season_unmonitored
          /\ process_logs[i].success

\* the transaction of the step got past the refresh, no request of it raised, and
\* the inventory holds no file record for the placeholder
PlaceholderNotFound(t) ==
    LET file_path == Episode(Head(pass[t].todo)).Path
        log == AddedLog(t)
    IN  /\ TransactionStep(t)
        /\ log.strm_created
        /\ [op |-> "refresh_series", by |-> pass[t].run_id] \in calls'
        /\ log.error_message # "HTTPError"
        /\ with_suffix_strm(file_path) \notin sonarr'.files

\* C27: when the placeholder's file record is not found after the refresh, no
\* rename is requested and sonarr_renamed stays false, and the transaction
\* still ends successful, without an error message and with the pending
\* record of the path deleted.
C27_MissingRecordSkipsRename ==
    [][\A t \in Triggers :
          PlaceholderNotFound(t)
              => LET file_path == Episode(Head(pass[t].todo)).Path
                     log == AddedLog(t)
                     rename == [op |-> "rename_files", by |-> pass[t].run_id]
                 IN  /\ rename \in calls' => rename \in calls
                     /\ ~log.sonarr_renamed
                     /\ log.success
                     /\ log.error_message = ""
                     /\ pass'[t].outcome = "evicted"
                     /\ \A i \in DOMAIN view_watched(pass'[t].session) :
                            view_watched(pass'[t].session)[i].file_path # file_path
                     /\ file_path \in pass'[t].session.dels]_vars

\* a committed eviction whose placeholder the inventory never registered: the
\* row is successful and not renamed, and the pending record is gone
C27_Witness ==
    \E i \in DOMAIN process_logs :
        LET log == process_logs[i]
        IN  /\ log.success /\ ~log.test_mode
            /\ log.strm_created /\ ~log.sonarr_renamed
            /\ log.error_message = ""
            /\ with_suffix_strm(log.original_path) \in files
            /\ with_suffix_strm(log.original_path) \notin sonarr.files
            /\ \A op \in calls : op.op # "rename_files"
            /\ \A j \in DOMAIN watched_episodes :
                  watched_episodes[j].file_path # log.original_path

\* C28: the changes to the pending records and to the log made while a library
\* is processed are persisted together at the library's commit or not at all:
\* the last commit of a pass that an exception has left persists no pending
\* record and no log row.
C28_AtomicPerLibrary ==
    [][\A t \in Triggers :
          FinishStep(t) /\ Escaped(t)
              => /\ watched_episodes' = watched_episodes
                 /\ process_logs' = process_logs]_vars

\* a pass of trigger t ends in this step on a failure met before its run row
\* was created
StartFailed(t) ==
    /\ pass[t].pc = "idle" /\ pass'[t].pc = "idle"
    /\ events' = events + 1
    /\ pass'[t].outcome \in {"returned", "escaped"}

\* C29: every failure of a pass after the client check leaves a run row with
\* status failed: a pass that fails before its library loop adds such a row,
\* and a pass that an exception has left in the loop ends with its run row
\* failed.
C29_FailureHasRunRecord ==
    [][\A t \in Triggers :
          /\ StartFailed(t)
                => \E i \in DOMAIN process_runs' :
                      /\ process_runs'[i].status = "failed"
                      /\ process_runs'[i].trigger = t
                      /\ \A j \in DOMAIN process_runs : process_runs[j] # process_runs'[i]
          /\ FinishStep(t) /\ Escaped(t) /\ session_usable(pass[t])
                => \E i \in DOMAIN process_runs' :
                      /\ process_runs'[i].id = pass[t].run_id
                      /\ process_runs'[i].status = "failed"]_vars

\* the flags of a log entry fit together
Coherent(log) ==
    IF log.test_mode
    THEN /\ ~log.sonarr_unmonitored /\ ~log.season_unmonitored
         /\ ~log.file_deleted /\ ~log.strm_created /\ ~log.sonarr_renamed
    ELSE /\ log.season_unmonitored => log.sonarr_unmonitored
         /\ log.file_deleted => log.sonarr_unmonitored
         /\ log.strm_created => log.sonarr_unmonitored
         /\ log.sonarr_renamed => log.strm_created
         /\ log.success => /\ log.sonarr_unmonitored
                           /\ log.strm_created
                           /\ log.error_message = ""
         /\ ~log.success => log.error_message # ""

C31_FlagsRecordSteps ==
    \A i \in DOMAIN process_logs :
        LET log == process_logs[i]
        IN  /\ log.sonarr_renamed => \E c \in calls : c.op = "rename_files"
            /\ log.file_deleted => log.original_path \notin files
            /\ log.season_unmonitored => ~sonarr.season_monitored

\* C32: the persisted log holds at most one non-test entry with success = true
\* per original path, so the idempotent-skip lookup finds at most one row.
C32_OneSuccessPerPath ==
    \A i, j \in DOMAIN process_logs :
        /\ process_logs[i].success /\ ~process_logs[i].test_mode
        /\ process_logs[j].success /\ ~process_logs[j].test_mode
        /\ process_logs[i].original_path = process_logs[j].original_path
        => i = j

\* the log entries the step adds to the session of the pass of trigger t
AddedLogs(t) ==
    IF pass[t].pc = "idle" \/ pass'[t].pc = "idle"
       \/ Len(pass'[t].session.logs) <= Len(pass[t].session.logs)
    THEN {}
    ELSE {pass'[t].session.logs[i] :
            i \in (Len(pass[t].session.logs) + 1)..Len(pass'[t].session.logs)}

\* C33: a pass keeps the test mode it has read when it started, whatever
\* toggle_test_mode does meanwhile: its run row and its log entries carry that
\* mode, and a pass started in test mode changes no file and nothing in the
\* inventory.
C33_TestModeReadOnce ==
    [][\A t \in Triggers :
          /\ StartStep(t)
                => /\ pass'[t].test_mode = test_mode
                   /\ process_runs'[Len(process_runs')].test_mode = test_mode
                   /\ process_runs'[Len(process_runs')].id = pass'[t].run_id
          /\ pass[t].pc # "idle" /\ pass'[t].pc # "idle"
                => pass'[t].test_mode = pass[t].test_mode
          /\ \A log \in AddedLogs(t) : log.test_mode = pass[t].test_mode
          /\ PassStep(t) /\ InTestMode(t)
                => files' = files /\ sonarr' = sonarr /\ calls' = calls
          /\ FinishStep(t)
                => /\ Len(process_runs') = Len(process_runs)
                   /\ \A i \in DOMAIN process_runs :
                         process_runs'[i].test_mode = process_runs[i].test_mode]_vars

\* the setting was switched during a pass: a pass started in test mode has
\* simulated a candidate while the setting is off, or a live pass has evicted
\* one while the setting is on
C33_Witness ==
    \E t \in Triggers :
        /\ pass[t].pc # "idle"
        /\ pass[t].test_mode # test_mode
        /\ pass[t].session.logs # <<>>
        /\ pass[t].outcome \in {"test", "evicted"}
        /\ pass[t].session.logs[Len(pass[t].session.logs)].test_mode = pass[t].test_mode

\* the entries of a set of at most one log entry that succeeded, that failed,
\* and the bytes of those that succeeded
Succeeded(logs) == {l \in logs : l.success}
Failed(logs) == {l \in logs : ~l.success}
BytesOf(logs) == IF logs = {} THEN 0 ELSE (CHOOSE l \in logs : TRUE).original_size_bytes

\* C34: in a pass that runs alone the running totals grow with each entry the
\* pass writes, by one processed and the entry's size for a success and by one
\* failed for a failure; the published progress counters equal the running
\* totals at every point of the pass; and the run row of a pass that completes
\* takes the totals as episodes_processed, episodes_failed and bytes_reclaimed.
C34_CountersMatchEntries ==
    [][\A t \in Triggers :
          /\ pass'[t].pc # "idle"
                => /\ progress'.run_id = pass'[t].run_id
                   /\ progress'.processed_count = pass'[t].total_processed
                   /\ progress'.failed_count = pass'[t].total_failed
                   /\ progress'.bytes_reclaimed = pass'[t].total_bytes
          /\ StartStep(t)
                => /\ pass'[t].total_processed = 0
                   /\ pass'[t].total_failed = 0
                   /\ pass'[t].total_bytes = 0
          /\ pass[t].pc # "idle" /\ pass'[t].pc # "idle"
                => /\ Len(pass'[t].session.logs) <= Len(pass[t].session.logs) + 1
                   /\ pass'[t].total_processed
                        = pass[t].total_processed + Cardinality(Succeeded(AddedLogs(t)))
                   /\ pass'[t].total_failed
                        = pass[t].total_failed + Cardinality(Failed(AddedLogs(t)))
                   /\ pass'[t].total_bytes
                        = pass[t].total_bytes + BytesOf(Succeeded(AddedLogs(t)))
          /\ FinishStep(t) /\ ~Escaped(t)
                => \E i \in DOMAIN process_runs' :
                      /\ process_runs'[i].id = pass[t].run_id
                      /\ process_runs'[i].status = "completed"
                      /\ process_runs'[i].episodes_processed = pass[t].total_processed
                      /\ process_runs'[i].episodes_failed = pass[t].total_failed
                      /\ process_runs'[i].bytes_reclaimed = pass[t].total_bytes
                      /\ progress'.processed_count = pass[t].total_processed
                      /\ progress'.failed_count = pass[t].total_failed
                      /\ progress'.bytes_reclaimed = pass[t].total_bytes]_vars

\* a pass has completed after it evicted a file: its run row and the progress
\* state count the eviction with the bytes of the file
C34_Witness ==
    \E i \in DOMAIN process_runs :
        /\ process_runs[i].status = "completed"
        /\ process_runs[i].episodes_processed + process_runs[i].episodes_failed > 0
        /\ process_runs[i].bytes_reclaimed = FileSize(P1) * process_runs[i].episodes_processed
        /\ process_runs[i].bytes_reclaimed > 0
        /\ ~progress.is_running
        /\ progress.run_id = process_runs[i].id
        /\ progress.bytes_reclaimed = process_runs[i].bytes_reclaimed
        /\ \E k \in DOMAIN process_logs :
              process_logs[k].success /\ process_logs[k].original_path = P1

\* C35: the progress state has one writer.  is_running is true exactly while
\* some pass is between progress.start and progress.finish, run_id is the run
\* of a pass in progress, and while a pass is in progress no counter is reset
\* or decreased.
C35_ProgressSingleWriter ==
    [][/\ progress'.is_running <=> \E t \in Triggers : pass'[t].pc # "idle"
       /\ progress'.is_running
            => \E t \in Triggers : pass'[t].pc # "idle" /\ pass'[t].run_id = progress'.run_id
       /\ \A t \in Triggers :
            pass[t].pc # "idle" /\ pass'[t].pc # "idle"
               => /\ progress'.processed_count >= progress.processed_count
                  /\ progress'.failed_count >= progress.failed_count
                  /\ progress'.bytes_reclaimed >= progress.bytes_reclaimed]_vars

\* the pending records of rows and of later agree on first_seen_at path by path
SameClock(rows, later) ==
    \A i \in DOMAIN rows : \A j \in DOMAIN later :
        rows[i].file_path = later[j].file_path
            => rows[i].first_seen_at = later[j].first_seen_at

\* C36: the first_seen_at of a pending record is never changed: for a path
\* that has a committed record, the record committed after a step and the
\* record each pass sees in its session carry the same first_seen_at.
C36_FirstSeenFrozen ==
    [][/\ SameClock(watched_episodes, watched_episodes')
       /\ \A t \in Triggers :
            SameClock(watched_episodes, view_watched(pass'[t].session))]_vars

\* a pass has observed, on a later day, a file that was already pending and is
\* still watched: the record keeps the day of its first observation
C36_Witness ==
    /\ \E i \in DOMAIN watched_episodes : watched_episodes[i].first_seen_at < now
    /\ \E t \in Triggers :
          /\ pass[t].pc = "episodes"
          /\ pass[t].outcome \in {"test", "delayed"}
          /\ \E i \in DOMAIN view_watched(pass[t].session) :
                view_watched(pass[t].session)[i].first_seen_at < now

\* the file P1 has a committed pending record whose delay has elapsed, and a
\* pass can still be triggered
Due ==
    /\ events < MaxEvents
    /\ P1 \in files
    /\ \E i \in DOMAIN watched_episodes :
          /\ watched_episodes[i].file_path = P1
          /\ now - watched_episodes[i].first_seen_at >= delay_days

\* the file P1 is evicted: a successful non-test entry is persisted for it, the
\* placeholder has taken its place and its pending record is gone
Gone ==
    /\ Evicted(process_logs, P1)
    /\ P1 \notin files /\ with_suffix_strm(P1) \in files
    /\ \A i \in DOMAIN watched_episodes : watched_episodes[i].file_path # P1

PendingOf(rows, file_path) == {rows[i] : i \in {j \in DOMAIN rows : rows[j].file_path = file_path}}

Reaching(t, user_ids, file_path) ==
    {u \in user_ids \cap DOMAIN pass[t].user_access :
        user_can_access_file(file_path, pass[t].user_access[u],
                             pass[t].library_guid, pass[t].folder_mappings)}

\* the outcomes of process_episode that lie behind the check for accessible users
PastAccess == {"not_watched", "created", "delayed", "test", "evicted", "failed"}

\* C39: a user without an entry in the snapshot of the pass has no access to
\* any file.  A candidate is vetoed only by an excluded user whose entry gives
\* access to it; a candidate that no required user's entry gives access to is
\* left as having no accessible user, with no pending record and no log entry
\* added; and the candidate goes on past the watched check when the required
\* users whose entries give access have all watched it, whatever the required
\* users without an entry have watched.
C39_AbsentUserHasNoAccess ==
    [][\A t \in Triggers :
          LET item == Head(pass[t].todo)
              file_path == Episode(item).Path
              required == Reaching(t, Range(pass[t].required_users), file_path)
          IN  EpisodeStep(t) =>
                /\ pass'[t].outcome = "vetoed"
                      => Reaching(t, pass[t].excluded_user_ids, file_path) # {}
                /\ required = {}
                      => /\ pass'[t].outcome \notin PastAccess
                         /\ pass'[t].session = pass[t].session
                /\ pass'[t].outcome = "no_access" => required = {}
                /\ pass'[t].outcome \in PastAccess \ {"not_watched"}
                      => \A u \in required : item \in played[u]
                /\ pass'[t].outcome = "not_watched" /\ events' = events
                      => \E u \in required : item \notin played[u]]_vars

\* the excluded user has no entry in the snapshot, one required user has none
\* either and has not watched the candidate, and the pass has gone on with the
\* candidate on the word of the other required user
C39_Witness ==
    \E t \in Triggers :
        /\ pass[t].pc = "episodes"
        /\ pass[t].outcome = "created"
        /\ pass[t].excluded_user_ids \cap DOMAIN pass[t].user_access = {}
        /\ \E u \in Range(pass[t].required_users) \ DOMAIN pass[t].user_access :
              \E e \in Items : Episode(e).Path \in pass[t].created /\ e \notin played[u]
        /\ Range(pass[t].required_users) \cap DOMAIN pass[t].user_access # {}

====
